---- MODULE Spec2Model ----
(***************************************************************************)
(* Retrieval-evaluation core of rag_evaluate_ragas_BM25: the composite     *)
(* text similarity (app.py), the precision/recall evaluator and the BM25   *)
(* index (BM25_evaluate.py), F1 (F1_Metrics.py), the reciprocal rank      *)
(* (MRR_Metrics.py), the average precision (MAP_Metrics.py) and NDCG       *)
(* (NDCG_Metrics.py).                                                      *)
(*                                                                         *)
(* A text is a sequence of characters; a character is a string.  CJK       *)
(* characters are written by ASCII names of more than one letter.  A float *)
(* is an exact rational <<n, d>> in lowest terms with d > 0.               *)
(***************************************************************************)
EXTENDS Integers, Sequences, FiniteSets, TLC

VARIABLES
    env,        \* os.environ: SIMILARITY_THRESHOLD, SEMANTIC_CONTAINMENT_THRESHOLD
    call,       \* a direct call of one function: [fn, args, ret], ret None until it returns
    df,         \* the loaded samples: rows [user_input, retrieved_contexts, reference_contexts]
    pr,         \* BM25Evaluator.evaluate_precision_recall: its position, locals and results
    f1,         \* F1ScoreCalculator.calculate_f1_scores_from_bm25_results: its results
    mrr,        \* MRREvaluator: relevance_threshold and evaluate_mrr's position and results
    map,        \* MAPEvaluator: relevance_threshold and evaluate_map's position and results
    ndcg        \* NDCGEvaluator: relevance_threshold and evaluate_ndcg's position and results

vars == <<env, call, df, pr, f1, mrr, map, ndcg>>

\* Python's None where a float may stand, and a result not yet returned
None == <<"None">>
Pending == <<"pending">>
ZeroDivisionError == <<"ZeroDivisionError">>

-----------------------------------------------------------------------------
(* Exact rational arithmetic standing for Python floats.                   *)

Abs(x) == IF x < 0 THEN -x ELSE x

RECURSIVE GCD(_, _)
GCD(a, b) == IF b = 0 THEN a ELSE GCD(b, a % b)

\* n / d in lowest terms; a division by zero raises ZeroDivisionError, written
\* as a value
Rat(n, d) ==
    LET g == GCD(Abs(n), Abs(d))
        s == IF d < 0 THEN -1 ELSE 1
    IN  IF d = 0 THEN ZeroDivisionError
        ELSE IF n = 0 THEN <<0, 1>> ELSE <<(s * n) \div g, (s * d) \div g>>

Zero == <<0, 1>>
One == <<1, 1>>

RAdd(p, q) ==
    LET g == GCD(p[2], q[2])
    IN  Rat(p[1] * (q[2] \div g) + q[1] * (p[2] \div g), p[2] * (q[2] \div g))
RMul(p, q) == Rat(p[1] * q[1], p[2] * q[2])
RDiv(p, q) ==
    IF q[1] = 0 THEN ZeroDivisionError
    ELSE IF p[1] = 0 THEN Zero
    ELSE LET g1 == GCD(Abs(p[1]), Abs(q[1]))
             g2 == GCD(p[2], q[2])
         IN  Rat((p[1] \div g1) * (q[2] \div g2), (p[2] \div g2) * (q[1] \div g1))
RLt(p, q) == p[1] * (q[2] \div GCD(p[2], q[2])) < q[1] * (p[2] \div GCD(p[2], q[2]))
RLe(p, q) == p[1] * (q[2] \div GCD(p[2], q[2])) <= q[1] * (p[2] \div GCD(p[2], q[2]))
RMax(p, q) == IF RLt(p, q) THEN q ELSE p
RMin(p, q) == IF RLt(q, p) THEN q ELSE p

SetMax(S) == CHOOSE x \in S : \A y \in S : y <= x

-----------------------------------------------------------------------------
(* Characters and the regular expressions of clean_text.                   *)

LowerLetters == {"a", "b", "c", "d", "e", "f", "v", "w", "x", "y", "z"}
UpperLetters == {"A"}
Digits == {"1", "2"}
CJKChars == {"mao", "he", "gou", "fen", "xiang", "tui", "jian", "du", "le", "ben",
             "zui", "jin", "shu", "ji", "yue", "hou", "gan"}
\* the book-title brackets of BM25._tokenize, ordinary punctuation elsewhere
LeftTitle == "[["
RightTitle == "]]"
WhiteSpace == {" ", "\t"}

\* \w of a Python 3 str pattern: letters of any script, digits, underscore
IsWordChar(c) == c \in LowerLetters \cup UpperLetters \cup Digits \cup CJKChars \cup {"_"}

\* str.lower() on one character
Lower(c) == IF c = "A" THEN "a" ELSE c

\* re.sub(r'[^\w\s一-鿿]', ' ', text)
SubPunct(text) ==
    [k \in 1..Len(text) |->
        IF IsWordChar(text[k]) \/ text[k] \in WhiteSpace THEN text[k] ELSE " "]

\* re.sub(r'\s+', ' ', cleaned).strip(): every run of whitespace becomes one
\* space, and the leading and trailing one is dropped
RECURSIVE Collapse(_, _)
Collapse(text, acc) ==
    IF text = <<>> THEN acc
    ELSE IF Head(text) \in WhiteSpace
         THEN IF acc = <<>> \/ acc[Len(acc)] = " "
              THEN Collapse(Tail(text), acc)
              ELSE Collapse(Tail(text), Append(acc, " "))
         ELSE Collapse(Tail(text), Append(acc, Head(text)))

Strip(text) ==
    IF text # <<>> /\ text[Len(text)] = " " THEN SubSeq(text, 1, Len(text) - 1) ELSE text

clean_text(text) ==
    LET c == Strip(Collapse(SubPunct(text), <<>>))
    IN  [k \in 1..Len(c) |-> Lower(c[k])]

\* str.split() of a cleaned text: the maximal runs without a space
RECURSIVE SplitWords(_, _, _)
SplitWords(text, cur, acc) ==
    IF text = <<>> THEN (IF cur = <<>> THEN acc ELSE acc \cup {cur})
    ELSE IF Head(text) \in WhiteSpace
         THEN SplitWords(Tail(text), <<>>, IF cur = <<>> THEN acc ELSE acc \cup {cur})
         ELSE SplitWords(Tail(text), Append(cur, Head(text)), acc)

WordSet(cleaned) == SplitWords(cleaned, <<>>, {})
CharSet(cleaned) == {cleaned[k] : k \in 1..Len(cleaned)}

\* Python's  s in t  on strings
IsSubstring(s, t) ==
    \E k \in 0..(Len(t) - Len(s)) : SubSeq(t, k + 1, k + Len(s)) = s

-----------------------------------------------------------------------------
(* os.getenv with its default, and float() of it.                          *)

DefaultSimilarityThreshold == <<1, 2>>
DefaultSemanticContainmentThreshold == <<9, 10>>

Getenv(e, name, default) == IF e[name] = None THEN default ELSE e[name]

-----------------------------------------------------------------------------
(* calculate_text_similarity of app.py.                                    *)

jaccard_similarity(words1, words2) ==
    LET union == Cardinality(words1 \cup words2)
    IN  IF union > 0 THEN Rat(Cardinality(words1 \cap words2), union) ELSE Zero

char_similarity(c1, c2) ==
    LET char_union == Cardinality(CharSet(c1) \cup CharSet(c2))
    IN  IF char_union > 0
        THEN Rat(Cardinality(CharSet(c1) \cap CharSet(c2)), char_union)
        ELSE Zero

\* the two nested loops over shorter[i:j], i in range(len(shorter) - 5),
\* j in range(i + 5, len(shorter) + 1)
max_match(shorter, longer) ==
    SetMax({0} \cup
           {j - i : <<i, j>> \in
               {p \in (0..(Len(shorter) - 6)) \X (5..Len(shorter)) :
                    /\ p[2] >= p[1] + 5
                    /\ IsSubstring(SubSeq(shorter, p[1] + 1, p[2]), longer)}})

substring_similarity(c1, c2) ==
    IF Len(c1) > 10 /\ Len(c2) > 10
    THEN LET shorter == IF Len(c1) < Len(c2) THEN c1 ELSE c2
             longer == IF Len(c1) < Len(c2) THEN c2 ELSE c1
         IN  IF IsSubstring(shorter, longer)
             THEN Rat(Len(shorter), Len(longer))
             ELSE Rat(max_match(shorter, longer), Len(longer))
    ELSE Zero

weighted_similarity_misweighted(words1, words2, c1, c2) ==
    RAdd(RAdd(RMul(jaccard_similarity(words1, words2), <<2, 5>>),
              RMul(char_similarity(c1, c2), <<3, 10>>)),
         RMul(substring_similarity(c1, c2), <<1, 5>>))

weighted_similarity(words1, words2, c1, c2) ==
    RAdd(RAdd(RMul(jaccard_similarity(words1, words2), <<2, 5>>),
              RMul(char_similarity(c1, c2), <<3, 10>>)),
         RMul(substring_similarity(c1, c2), <<3, 10>>))

literal_containment(final, c1, c2) ==
    IF Len(c1) > Len(c2)
    THEN (IF IsSubstring(c2, c1) THEN RMax(final, <<4, 5>>) ELSE final)
    ELSE IF Len(c2) > Len(c1)
         THEN (IF IsSubstring(c1, c2) THEN RMax(final, <<4, 5>>) ELSE final)
         ELSE final

semantic_containment(words1, words2) ==
    IF Cardinality(words1) <= Cardinality(words2)
    THEN Rat(Cardinality(words1 \cap words2), Cardinality(words1))
    ELSE Rat(Cardinality(words2 \cap words1), Cardinality(words2))

semantic_override_uncapped(final, words1, words2, e) ==
    LET semantic_containment_threshold ==
            Getenv(e, "SEMANTIC_CONTAINMENT_THRESHOLD", DefaultSemanticContainmentThreshold)
    IN  IF Cardinality(words1) > 0 /\ Cardinality(words2) > 0
        THEN IF RLe(semantic_containment_threshold, semantic_containment(words1, words2))
             THEN RMax(final, semantic_containment(words1, words2))
             ELSE final
        ELSE final

semantic_override(final, words1, words2, e) ==
    LET semantic_containment_threshold ==
            Getenv(e, "SEMANTIC_CONTAINMENT_THRESHOLD", DefaultSemanticContainmentThreshold)
    IN  IF Cardinality(words1) > 0 /\ Cardinality(words2) > 0
        THEN IF RLe(semantic_containment_threshold, semantic_containment(words1, words2))
             THEN RMax(final, RMin(semantic_containment(words1, words2), <<19, 20>>))
             ELSE final
        ELSE final

calculate_text_similarity_unguarded(t1, t2, e) ==
    LET c1 == clean_text(t1)
        c2 == clean_text(t2)
        words1 == WordSet(c1)
        words2 == WordSet(c2)
    IN  IF t1 = <<>> \/ t2 = <<>> THEN Zero
        ELSE RMin(semantic_override(
                      literal_containment(weighted_similarity(words1, words2, c1, c2), c1, c2),
                      words1, words2, e), One)

calculate_text_similarity(t1, t2, e) ==
    LET c1 == clean_text(t1)
        c2 == clean_text(t2)
        words1 == WordSet(c1)
        words2 == WordSet(c2)
    IN  IF t1 = <<>> \/ t2 = <<>> THEN Zero
        ELSE IF words1 = {} \/ words2 = {} THEN Zero
        ELSE RMin(semantic_override(
                      literal_containment(weighted_similarity(words1, words2, c1, c2), c1, c2),
                      words1, words2, e), One)

-----------------------------------------------------------------------------
(* BM25 of BM25_evaluate.py: the tokenizer, fit, score, is_chunk_relevant. *)

\* re.findall of a character class followed by +: the maximal runs
RECURSIVE Runs(_, _, _, _)
Runs(text, class, cur, acc) ==
    IF text = <<>> THEN (IF cur = <<>> THEN acc ELSE acc \cup {cur})
    ELSE IF Head(text) \in class
         THEN Runs(Tail(text), class, Append(cur, Head(text)), acc)
         ELSE Runs(Tail(text), class, <<>>, IF cur = <<>> THEN acc ELSE acc \cup {cur})

\* position of the first RightTitle at or after k, 0 if there is none
FirstRight(text, k) ==
    IF \E q \in k..Len(text) : text[q] = RightTitle
    THEN CHOOSE q \in k..Len(text) :
            text[q] = RightTitle /\ \A r \in k..(q - 1) : text[r] # RightTitle
    ELSE 0

\* re.findall(LeftTitle ([^RightTitle]+) RightTitle): leftmost matches, not overlapping
RECURSIVE BookTitles(_, _, _)
BookTitles(text, k, acc) ==
    IF k > Len(text) THEN acc
    ELSE IF text[k] # LeftTitle THEN BookTitles(text, k + 1, acc)
    ELSE LET q == FirstRight(text, k + 1)
         IN  IF q = 0 THEN acc
             ELSE IF q = k + 1 THEN BookTitles(text, k + 1, acc)
             ELSE BookTitles(text, q + 1, acc \cup {SubSeq(text, k + 1, q - 1)})

action_words ==
    { <<"fen", "xiang">>, <<"tui", "jian">>, <<"du", "le">>, <<"du", "le", "ben">>,
      <<"zui", "jin", "du", "le">>, <<"shu", "ji">>, <<"shu">>, <<"du", "shu">>,
      <<"yue", "du">>, <<"du", "hou", "gan">> }

\* the token list of a text: a list of distinct tokens, in no promised order,
\* so its set and its length are all that is used
Tokenize(text) ==
    IF text = <<>> THEN {}
    ELSE LET lowered == [k \in 1..Len(text) |-> Lower(text[k])]
             chinese_chars == {<<lowered[k]>> : k \in {j \in 1..Len(lowered) : lowered[j] \in CJKChars}}
             english_words == Runs(lowered, LowerLetters \cup UpperLetters, <<>>, {})
             numbers == Runs(lowered, Digits, <<>>, {})
             book_titles == BookTitles(lowered, 1, {})
             keywords == {w \in action_words : IsSubstring(w, lowered)}
         IN  {t \in chinese_chars \cup english_words \cup numbers \cup book_titles \cup keywords :
                 Len(t) >= 1}

\* math.log at the arguments (N - df + 0.5) / (df + 0.5) of small corpora
\* (corpora of up to three documents), in millionths
LnMicro(x) ==
    CASE x = <<1, 3>> -> -1098612
      [] x = <<1, 1>> -> 0
      [] x = <<1, 5>> -> -1609438
      [] x = <<5, 3>> -> 510826
      [] x = <<3, 5>> -> -510826
      [] x = <<1, 7>> -> -1945910

\* BM25.fit: the index of a corpus
BM25_fit(corpus) ==
    LET toks == [d \in 1..Len(corpus) |-> Tokenize(corpus[d])]
        corpus_size == Len(corpus)
        doc_len == [d \in 1..Len(corpus) |-> Cardinality(toks[d])]
        RECURSIVE Sum(_)
        Sum(d) == IF d = 0 THEN 0 ELSE doc_len[d] + Sum(d - 1)
        words == UNION {toks[d] : d \in 1..Len(corpus)}
        dfreq(w) == Cardinality({d \in 1..Len(corpus) : w \in toks[d]})
    IN  [ corpus |-> toks,
          corpus_size |-> corpus_size,
          doc_len |-> doc_len,
          avgdl |-> IF corpus_size > 0 THEN Rat(Sum(corpus_size), corpus_size) ELSE Zero,
          idf |-> [w \in words |->
                     Rat(LnMicro(Rat(2 * (corpus_size - dfreq(w)) + 1, 2 * dfreq(w) + 1)),
                         1000000)] ]

BM25_k1 == <<3, 2>>
BM25_b == <<3, 4>>

\* BM25.__init__: the index before any fit
BM25_new == [ corpus |-> <<>>, corpus_size |-> 0, doc_len |-> <<>>, avgdl |-> Zero, idf |-> <<>> ]

\* a list index out of range
IndexError == <<"IndexError">>

\* BM25.score; every token of a document has tf = 1.  self.doc_freqs[doc_index]
\* with a negative doc_index counts from the end of the list and raises
\* IndexError below -len
BM25_score(bm25, query, doc_index) ==
    IF doc_index >= Len(bm25.corpus) THEN Zero
    ELSE IF doc_index < -Len(bm25.corpus) THEN IndexError
    ELSE LET query_tokens == Tokenize(query)
             d == IF doc_index >= 0 THEN doc_index + 1 ELSE Len(bm25.corpus) + doc_index + 1
             doc == bm25.corpus[d]
             doc_len == bm25.doc_len[d]
             shared == query_tokens \cap doc
             term(t) ==
                 LET numerator == RMul(One, RAdd(BM25_k1, One))
                     denominator ==
                         RAdd(One,
                              RMul(BM25_k1,
                                   RAdd(RAdd(One, RMul(<<-1, 1>>, BM25_b)),
                                        RMul(BM25_b, RDiv(<<doc_len, 1>>, bm25.avgdl)))))
                 IN  RMul(bm25.idf[t], RDiv(numerator, denominator))
             RECURSIVE Total(_)
             Total(S) == IF S = {} THEN Zero
                         ELSE LET t == CHOOSE u \in S : TRUE
                              IN  RAdd(term(t), Total(S \ {t}))
         IN  Total(shared)

BM25RelevanceThreshold == <<-10, 1>>

\* is_chunk_relevant(query, chunk, threshold=-10.0)[0]
is_chunk_relevant(query, chunk) ==
    IF chunk = <<>> \/ query = <<>> THEN FALSE
    ELSE RLt(BM25RelevanceThreshold, BM25_score(BM25_fit(<<chunk>>), query, 0))

-----------------------------------------------------------------------------
(* BM25Evaluator of BM25_evaluate.py.                                      *)

calculate_relevance_score(retrieved_chunk, reference_chunk, e) ==
    IF retrieved_chunk = <<>> \/ reference_chunk = <<>> THEN Zero
    ELSE calculate_text_similarity(retrieved_chunk, reference_chunk, e)

check_semantic_containment(retrieved_chunk, reference_chunk, threshold) ==
    IF retrieved_chunk = <<>> \/ reference_chunk = <<>> THEN FALSE
    ELSE LET words_retrieved == WordSet(clean_text(retrieved_chunk))
             words_reference == WordSet(clean_text(reference_chunk))
         IN  IF words_retrieved = {} \/ words_reference = {} THEN FALSE
             ELSE RLe(threshold, semantic_containment(words_retrieved, words_reference))

\* max(list) of floats, and list.index(max): the first place that holds it
\* a Python list built by appending one element per index: the elements are
\* computed once, when the list is built
as_list(f) == <<>> \o f

RECURSIVE SeqMax(_)
SeqMax(xs) ==
    IF Len(xs) = 1 THEN xs[1] ELSE RMax(xs[1], SeqMax(Tail(xs)))

IndexOf(xs, x) == CHOOSE j \in 1..Len(xs) : xs[j] = x /\ \A k \in 1..(j - 1) : xs[k] # x

RECURSIVE SeqSum(_)
SeqSum(xs) == IF xs = <<>> THEN Zero ELSE RAdd(xs[1], SeqSum(Tail(xs)))

\* np.mean of a non-empty list
Mean(xs) == RDiv(SeqSum(xs), <<Len(xs), 1>>)

EmptyResults ==
    [ precision_scores |-> <<>>, recall_scores |-> <<>>, irrelevant_chunks |-> <<>>,
      missed_chunks |-> <<>>, relevant_chunks |-> <<>>, detailed_results |-> <<>>,
      avg_precision |-> None, avg_recall |-> None, avg_f1 |-> None ]

PRIdle ==
    [ pc |-> "idle", idx |-> 0, i |-> 0, similarity_threshold |-> None,
      similarity_matrix |-> <<>>, relevant_retrieved |-> <<>>, matched_references |-> {},
      total_relevance_score |-> Zero, results |-> EmptyResults ]

\* indices are the 0-based ones of the code; sequences are 1-based
Row(k) == df[k]

\* lines 312-319: similarity_matrix[i][j]
SimilarityMatrix(row, e) ==
    [i \in 1..Len(row.retrieved_contexts) |->
        [j \in 1..Len(row.reference_contexts) |->
            calculate_relevance_score(row.retrieved_contexts[i], row.reference_contexts[j], e)]]

\* line 332: the verdict on a retrieved chunk
exceeds_threshold_ge(max_similarity, similarity_threshold) ==
    RLe(similarity_threshold, max_similarity)

exceeds_threshold(max_similarity, similarity_threshold) ==
    RLt(similarity_threshold, max_similarity)

\* lines 326-362, one turn of the loop over the retrieved chunks: the frame after it
ClassifyRetrieved(f, row, e) ==
    LET i == f.i
        retrieved_chunk == row.retrieved_contexts[i + 1]
        max_similarity == SeqMax(f.similarity_matrix[i + 1])
        best_ref_idx == IndexOf(f.similarity_matrix[i + 1], max_similarity) - 1
        similarity_threshold == Getenv(e, "SIMILARITY_THRESHOLD", DefaultSimilarityThreshold)
        semantic_containment_threshold ==
            Getenv(e, "SEMANTIC_CONTAINMENT_THRESHOLD", DefaultSemanticContainmentThreshold)
        relevant_chunk_info ==
            [ retrieved_chunk |-> retrieved_chunk,
              reference_chunk |-> row.reference_contexts[best_ref_idx + 1],
              relevance_score |-> max_similarity,
              row_index |-> f.idx,
              retrieved_idx |-> i,
              reference_idx |-> best_ref_idx,
              user_input |-> row.user_input,
              is_semantic_containment |->
                  check_semantic_containment(retrieved_chunk,
                      row.reference_contexts[best_ref_idx + 1], semantic_containment_threshold),
              semantic_containment_threshold |-> semantic_containment_threshold ]
    IN  IF exceeds_threshold(max_similarity, similarity_threshold)
        THEN [f EXCEPT !.i = i + 1,
                       !.similarity_threshold = similarity_threshold,
                       !.relevant_retrieved = Append(@, relevant_chunk_info),
                       !.total_relevance_score = RAdd(@, max_similarity),
                       !.results.relevant_chunks = Append(@, relevant_chunk_info),
                       !.matched_references = @ \cup {best_ref_idx}]
        ELSE [f EXCEPT !.i = i + 1,
                       !.similarity_threshold = similarity_threshold,
                       !.results.irrelevant_chunks = Append(@,
                           [ retrieved_chunk |-> retrieved_chunk,
                             max_relevance |-> max_similarity,
                             row_index |-> f.idx,
                             user_input |-> row.user_input,
                             retrieved_idx |-> i ])]

\* lines 367-373: the best similarity of reference chunk j and who holds it
reference_max_matched(f, j) ==
    IF j \in f.matched_references
    THEN SeqMax(<<Zero>> \o [i \in 1..Len(f.similarity_matrix) |-> f.similarity_matrix[i][j + 1]])
    ELSE Zero

reference_max(f, j) ==
    SeqMax(<<Zero>> \o [i \in 1..Len(f.similarity_matrix) |-> f.similarity_matrix[i][j + 1]])

best_retrieved_idx(f, j) ==
    LET col == [i \in 1..Len(f.similarity_matrix) |-> f.similarity_matrix[i][j + 1]]
    IN  IF reference_max(f, j) = Zero THEN -1 ELSE IndexOf(col, reference_max(f, j)) - 1

\* line 376: the verdict on a reference chunk
is_missed_lt(max_similarity, similarity_threshold) ==
    RLt(max_similarity, similarity_threshold)

is_missed(max_similarity, similarity_threshold) ==
    RLe(max_similarity, similarity_threshold)

\* lines 366-384: the entries the loop over the reference chunks appends
RECURSIVE MissedFrom(_, _, _)
MissedFrom(f, row, j) ==
    IF j >= Len(row.reference_contexts) THEN <<>>
    ELSE (IF is_missed(reference_max(f, j), f.similarity_threshold)
          THEN << [ reference_chunk |-> row.reference_contexts[j + 1],
                    max_relevance |-> reference_max(f, j),
                    row_index |-> f.idx,
                    user_input |-> row.user_input,
                    reference_idx |-> j,
                    best_retrieved_idx |-> best_retrieved_idx(f, j) ] >>
          ELSE <<>>) \o MissedFrom(f, row, j + 1)

\* lines 389-390
precision_swapped(total_relevance_score, row) ==
    IF row.reference_contexts # <<>>
    THEN RDiv(total_relevance_score, <<Len(row.reference_contexts), 1>>) ELSE Zero

precision_of(total_relevance_score, row) ==
    IF row.retrieved_contexts # <<>>
    THEN RDiv(total_relevance_score, <<Len(row.retrieved_contexts), 1>>) ELSE Zero

recall_of(total_relevance_score, row) ==
    IF row.reference_contexts # <<>>
    THEN RDiv(total_relevance_score, <<Len(row.reference_contexts), 1>>) ELSE Zero

\* line 417
avg_f1_unguarded(avg_precision, avg_recall) ==
    RDiv(RMul(<<2, 1>>, RMul(avg_precision, avg_recall)), RAdd(avg_precision, avg_recall))

\* the arithmetic mean of the two averages in the place of the harmonic one
avg_f1_arithmetic(avg_precision, avg_recall) ==
    RDiv(RAdd(avg_precision, avg_recall), <<2, 1>>)

avg_f1_of(avg_precision, avg_recall) ==
    IF RLt(Zero, RAdd(avg_precision, avg_recall))
    THEN RDiv(RMul(<<2, 1>>, RMul(avg_precision, avg_recall)), RAdd(avg_precision, avg_recall))
    ELSE Zero

\* lines 283-299
PR_Call ==
    /\ pr.pc = "idle"
    /\ pr' = [PRIdle EXCEPT !.pc = "rows",
                            !.idx = 0,
                            !.similarity_threshold =
                                Getenv(env, "SIMILARITY_THRESHOLD", DefaultSimilarityThreshold)]
    /\ UNCHANGED <<env, call, df, f1, mrr, map, ndcg>>

\* a row with an empty list entered into the averages with precision and recall 0
PR_SkipCounted ==
    /\ pr.pc = "rows"
    /\ pr.idx < Len(df)
    /\ Row(pr.idx + 1).retrieved_contexts = <<>> \/ Row(pr.idx + 1).reference_contexts = <<>>
    /\ pr' = [pr EXCEPT !.idx = @ + 1,
                        !.results.precision_scores = Append(@, Zero),
                        !.results.recall_scores = Append(@, Zero)]
    /\ UNCHANGED <<env, call, df, f1, mrr, map, ndcg>>

\* lines 301-310: a row with no retrieved or no reference chunks is passed over
PR_Skip ==
    /\ pr.pc = "rows"
    /\ pr.idx < Len(df)
    /\ Row(pr.idx + 1).retrieved_contexts = <<>> \/ Row(pr.idx + 1).reference_contexts = <<>>
    /\ pr' = [pr EXCEPT !.idx = @ + 1]
    /\ UNCHANGED <<env, call, df, f1, mrr, map, ndcg>>

\* lines 301-324: the similarity matrix of the row and its fresh locals
PR_Matrix ==
    /\ pr.pc = "rows"
    /\ pr.idx < Len(df)
    /\ Row(pr.idx + 1).retrieved_contexts # <<>>
    /\ Row(pr.idx + 1).reference_contexts # <<>>
    /\ pr' = [pr EXCEPT !.pc = "retrieved",
                        !.i = 0,
                        !.similarity_matrix = SimilarityMatrix(Row(pr.idx + 1), env),
                        !.relevant_retrieved = <<>>,
                        !.matched_references = {},
                        !.total_relevance_score = Zero]
    /\ UNCHANGED <<env, call, df, f1, mrr, map, ndcg>>

\* lines 326-362: the next retrieved chunk of the row
PR_Retrieved ==
    /\ pr.pc = "retrieved"
    /\ pr.i < Len(Row(pr.idx + 1).retrieved_contexts)
    /\ pr' = ClassifyRetrieved(pr, Row(pr.idx + 1), env)
    /\ UNCHANGED <<env, call, df, f1, mrr, map, ndcg>>

\* lines 364-412: the missed reference chunks and the scores of the row
FinishRow(f, row) ==
    LET precision == precision_of(f.total_relevance_score, row)
        recall == recall_of(f.total_relevance_score, row)
    IN  [f EXCEPT
            !.pc = "rows",
            !.idx = @ + 1,
            !.results.missed_chunks = @ \o MissedFrom(f, row, 0),
            !.results.precision_scores = Append(@, precision),
            !.results.recall_scores = Append(@, recall),
            !.results.detailed_results = Append(@,
                [ row_index |-> f.idx,
                  user_input |-> row.user_input,
                  precision |-> precision,
                  recall |-> recall,
                  retrieved_count |-> Len(row.retrieved_contexts),
                  reference_count |-> Len(row.reference_contexts),
                  relevant_count |-> Len(f.relevant_retrieved),
                  total_relevance_score |-> f.total_relevance_score,
                  matched_reference_count |-> Cardinality(f.matched_references),
                  relevant_chunks |-> f.relevant_retrieved,
                  similarity_matrix |-> f.similarity_matrix ])]

PR_Missed ==
    /\ pr.pc = "retrieved"
    /\ pr.i = Len(Row(pr.idx + 1).retrieved_contexts)
    /\ pr' = FinishRow(pr, Row(pr.idx + 1))
    /\ UNCHANGED <<env, call, df, f1, mrr, map, ndcg>>

\* lines 414-424
Averages(f) ==
    LET avg_precision == IF f.results.precision_scores # <<>>
                         THEN Mean(f.results.precision_scores) ELSE Zero
        avg_recall == IF f.results.recall_scores # <<>>
                      THEN Mean(f.results.recall_scores) ELSE Zero
    IN  [f EXCEPT !.pc = "done",
                  !.results.avg_precision = avg_precision,
                  !.results.avg_recall = avg_recall,
                  !.results.avg_f1 = avg_f1_of(avg_precision, avg_recall)]

PR_Return ==
    /\ pr.pc = "rows"
    /\ pr.idx = Len(df)
    /\ pr' = Averages(pr)
    /\ UNCHANGED <<env, call, df, f1, mrr, map, ndcg>>

-----------------------------------------------------------------------------
(* F1_Metrics.py.                                                          *)

\* F1ScoreCalculator.calculate_f1_score
F1ScoreCalculator_calculate_f1_score(precision, recall) ==
    IF precision = None \/ recall = None THEN Zero
    ELSE IF RAdd(precision, recall) = Zero THEN Zero
    ELSE RDiv(RMul(<<2, 1>>, RMul(precision, recall)), RAdd(precision, recall))

\* the module-level calculate_f1_score
calculate_f1_score_unscaled(precision, recall) ==
    IF precision = None \/ recall = None THEN Zero
    ELSE IF RAdd(precision, recall) = Zero THEN Zero
    ELSE RDiv(RMul(precision, recall), RAdd(precision, recall))

calculate_f1_score(precision, recall) ==
    IF precision = None \/ recall = None THEN Zero
    ELSE IF RAdd(precision, recall) = Zero THEN Zero
    ELSE RDiv(RMul(<<2, 1>>, RMul(precision, recall)), RAdd(precision, recall))

F1Idle == [pc |-> "idle", avg_f1 |-> None, f1_scores |-> <<>>, avg_precision |-> None,
           avg_recall |-> None, total_samples |-> 0]

\* F1ScoreCalculator.calculate_f1_scores_from_bm25_results
calculate_f1_scores_from_bm25_results(bm25_results) ==
    LET precision_scores == bm25_results.precision_scores
        recall_scores == bm25_results.recall_scores
    IN  [ pc |-> "done",
          avg_f1 |-> F1ScoreCalculator_calculate_f1_score(
                         bm25_results.avg_precision, bm25_results.avg_recall),
          f1_scores |->
              [k \in 1..Len(precision_scores) |->
                  F1ScoreCalculator_calculate_f1_score(
                      precision_scores[k],
                      IF k <= Len(recall_scores) THEN recall_scores[k] ELSE Zero)],
          avg_precision |-> bm25_results.avg_precision,
          avg_recall |-> bm25_results.avg_recall,
          total_samples |-> Len(precision_scores) ]

\* the caller hands it the results of a finished evaluate_precision_recall
F1_Call ==
    /\ pr.pc = "done"
    /\ f1.pc = "idle"
    /\ f1' = calculate_f1_scores_from_bm25_results(pr.results)
    /\ UNCHANGED <<env, call, df, pr, mrr, map, ndcg>>

-----------------------------------------------------------------------------
(* MRREvaluator of MRR_Metrics.py.                                         *)

\* get_relevant_chunks_for_query: the reference chunks that pass the BM25 check
RECURSIVE Filter(_, _)
Filter(query, chunks) ==
    IF chunks = <<>> THEN <<>>
    ELSE (IF is_chunk_relevant(query, Head(chunks)) THEN <<Head(chunks)>> ELSE <<>>)
         \o Filter(query, Tail(chunks))

get_relevant_chunks_for_query(query, reference_contexts) ==
    IF query = <<>> \/ reference_contexts = <<>> THEN <<>>
    ELSE Filter(query, reference_contexts)

\* lines 135-139: the dict chunk_positions; a later equal chunk overwrites the entry
chunk_positions_first_kept(retrieved_contexts) ==
    [chunk \in {retrieved_contexts[k] : k \in 1..Len(retrieved_contexts)} |->
        LET first == CHOOSE k \in 1..Len(retrieved_contexts) :
                        /\ retrieved_contexts[k] = chunk
                        /\ \A m \in 1..(k - 1) : retrieved_contexts[m] # chunk
        IN  Len(retrieved_contexts) - (first - 1)]

chunk_positions(retrieved_contexts) ==
    [chunk \in {retrieved_contexts[k] : k \in 1..Len(retrieved_contexts)} |->
        LET last == SetMax({k \in 1..Len(retrieved_contexts) : retrieved_contexts[k] = chunk})
        IN  Len(retrieved_contexts) - (last - 1)]

\* lines 141-156: best_position after the two loops, 0 standing for "no chunk found"
RECURSIVE BestPosition(_, _, _, _, _, _)
BestPosition(retrieved_contexts, relevant_chunks, positions, threshold, e, k) ==
    IF k > Len(retrieved_contexts) THEN 0
    ELSE LET chunk == retrieved_contexts[k]
             hit == \E r \in 1..Len(relevant_chunks) :
                        RLt(threshold, calculate_relevance_score(chunk, relevant_chunks[r], e))
             rest == BestPosition(retrieved_contexts, relevant_chunks, positions, threshold, e, k + 1)
         IN  IF hit /\ (rest = 0 \/ positions[chunk] < rest) THEN positions[chunk] ELSE rest

calculate_reciprocal_rank(relevance_threshold, query, retrieved_contexts, reference_contexts, e) ==
    LET relevant_chunks == get_relevant_chunks_for_query(query, reference_contexts)
    IN  IF relevant_chunks = <<>> THEN Zero
        ELSE IF retrieved_contexts = <<>> THEN Zero
        ELSE LET best_position ==
                     BestPosition(retrieved_contexts, relevant_chunks,
                                  chunk_positions(retrieved_contexts), relevance_threshold, e, 1)
             IN  IF best_position # 0 THEN Rat(1, best_position) ELSE Zero

MRRResults ==
    [ reciprocal_ranks |-> <<>>, detailed_results |-> <<>>, total_queries |-> 0,
      queries_with_relevant_chunks |-> 0, queries_without_relevant_chunks |-> 0, mrr |-> None ]

\* MRREvaluator.__init__ reads the threshold once, when the evaluator is built
MRRBuilt(e) ==
    [ pc |-> "idle", idx |-> 0,
      relevance_threshold |-> Getenv(e, "SIMILARITY_THRESHOLD", DefaultSimilarityThreshold),
      results |-> MRRResults ]

\* lines 176-189
MRR_Call ==
    /\ mrr.pc = "idle"
    /\ mrr' = [mrr EXCEPT !.pc = "rows", !.idx = 0, !.results = MRRResults]
    /\ UNCHANGED <<env, call, df, pr, f1, map, ndcg>>

\* a row with an empty list scored 0 and left out of the count of the queries
\* without relevant chunks
ScoreEmptyRowUncounted(m, row) ==
    [m EXCEPT
        !.idx = @ + 1,
        !.results.reciprocal_ranks = Append(@, Zero),
        !.results.total_queries = @ + 1,
        !.results.detailed_results = Append(@,
            [ row_index |-> m.idx,
              user_input |-> row.user_input,
              reciprocal_rank |-> Zero,
              retrieved_count |-> Len(row.retrieved_contexts),
              reference_count |-> Len(row.reference_contexts),
              relevant_chunks_count |-> 0,
              first_relevant_position |-> None ])]

\* lines 192-211: a row with no retrieved or no reference chunks scores 0
ScoreEmptyRow(m, row) ==
    [m EXCEPT
        !.idx = @ + 1,
        !.results.reciprocal_ranks = Append(@, Zero),
        !.results.total_queries = @ + 1,
        !.results.queries_without_relevant_chunks = @ + 1,
        !.results.detailed_results = Append(@,
            [ row_index |-> m.idx,
              user_input |-> row.user_input,
              reciprocal_rank |-> Zero,
              retrieved_count |-> Len(row.retrieved_contexts),
              reference_count |-> Len(row.reference_contexts),
              relevant_chunks_count |-> 0,
              first_relevant_position |-> None ])]

MRR_EmptyRow ==
    /\ mrr.pc = "rows"
    /\ mrr.idx < Len(df)
    /\ Row(mrr.idx + 1).retrieved_contexts = <<>> \/ Row(mrr.idx + 1).reference_contexts = <<>>
    /\ mrr' = ScoreEmptyRow(mrr, Row(mrr.idx + 1))
    /\ UNCHANGED <<env, call, df, pr, f1, map, ndcg>>

\* int(1 / reciprocal_rank) of a reciprocal rank 1/p
IntOfInverse(rr) == rr[2] \div rr[1]

\* lines 213-238: a row with both lists
ScoreRow(m, row, e) ==
    LET reciprocal_rank ==
            calculate_reciprocal_rank(m.relevance_threshold, row.user_input,
                row.retrieved_contexts, row.reference_contexts, e)
        found == RLt(Zero, reciprocal_rank)
    IN  [m EXCEPT
            !.idx = @ + 1,
            !.results.reciprocal_ranks = Append(@, reciprocal_rank),
            !.results.total_queries = @ + 1,
            !.results.queries_with_relevant_chunks = IF found THEN @ + 1 ELSE @,
            !.results.queries_without_relevant_chunks = IF found THEN @ ELSE @ + 1,
            !.results.detailed_results = Append(@,
                [ row_index |-> m.idx,
                  user_input |-> row.user_input,
                  reciprocal_rank |-> reciprocal_rank,
                  retrieved_count |-> Len(row.retrieved_contexts),
                  reference_count |-> Len(row.reference_contexts),
                  relevant_chunks_count |->
                      Len(get_relevant_chunks_for_query(row.user_input, row.reference_contexts)),
                  first_relevant_position |->
                      IF found THEN IntOfInverse(reciprocal_rank) ELSE None ])]

MRR_Row ==
    /\ mrr.pc = "rows"
    /\ mrr.idx < Len(df)
    /\ Row(mrr.idx + 1).retrieved_contexts # <<>>
    /\ Row(mrr.idx + 1).reference_contexts # <<>>
    /\ mrr' = ScoreRow(mrr, Row(mrr.idx + 1), env)
    /\ UNCHANGED <<env, call, df, pr, f1, map, ndcg>>

\* lines 264-276
MRR_Return ==
    /\ mrr.pc = "rows"
    /\ mrr.idx = Len(df)
    /\ mrr' = [mrr EXCEPT
            !.pc = "done",
            !.results.mrr = IF mrr.results.reciprocal_ranks # <<>>
                            THEN Mean(mrr.results.reciprocal_ranks) ELSE Zero]
    /\ UNCHANGED <<env, call, df, pr, f1, map, ndcg>>

-----------------------------------------------------------------------------
(* MAPEvaluator of MAP_Metrics.py.                                         *)

\* MAPEvaluator.get_relevant_chunks_for_query, lines 75-82
RECURSIVE MAP_Filter(_, _)
MAP_Filter(query, chunks) ==
    IF chunks = <<>> THEN <<>>
    ELSE (IF is_chunk_relevant(query, Head(chunks)) THEN <<Head(chunks)>> ELSE <<>>)
         \o MAP_Filter(query, Tail(chunks))

\* the reference chunks without the BM25 filter
MAP_all_reference_chunks(query, reference_contexts) == reference_contexts

\* MAPEvaluator.get_relevant_chunks_for_query
MAP_get_relevant_chunks_for_query(query, reference_contexts) ==
    IF query = <<>> \/ reference_contexts = <<>> THEN <<>>
    ELSE MAP_Filter(query, reference_contexts)

\* line 162: the position of the retrieved chunk at index i
position_forward(retrieved_contexts, i) == i + 1

position_of(retrieved_contexts, i) == Len(retrieved_contexts) - i

\* the entry of one retrieved chunk when a relevance equal to the threshold counts
chunk_relevance_entry_inclusive(relevance_threshold, position, retrieved_chunk, relevant_chunks, relevances) ==
    LET max_relevance == SeqMax(<<Zero>> \o relevances)
    IN  [ position |-> position,
          chunk |-> retrieved_chunk,
          relevance_score |-> max_relevance,
          is_relevant |-> RLe(relevance_threshold, max_relevance),
          best_ref_chunk |-> IF max_relevance = Zero THEN <<>>
                             ELSE relevant_chunks[IndexOf(relevances, max_relevance)] ]

\* lines 153-170: the entry of one retrieved chunk, from its relevance to each
\* of the relevant chunks
chunk_relevance_entry(relevance_threshold, position, retrieved_chunk, relevant_chunks, relevances) ==
    LET max_relevance == SeqMax(<<Zero>> \o relevances)
    IN  [ position |-> position,
          chunk |-> retrieved_chunk,
          relevance_score |-> max_relevance,
          is_relevant |-> RLt(relevance_threshold, max_relevance),
          best_ref_chunk |-> IF max_relevance = Zero THEN <<>>
                             ELSE relevant_chunks[IndexOf(relevances, max_relevance)] ]

\* lines 151-170: one entry per retrieved chunk
chunk_relevance_scores(relevance_threshold, retrieved_contexts, relevant_chunks, e) ==
    as_list([k \in 1..Len(retrieved_contexts) |->
        chunk_relevance_entry(relevance_threshold, position_of(retrieved_contexts, k - 1),
            retrieved_contexts[k], relevant_chunks,
            as_list([r \in 1..Len(relevant_chunks) |->
                calculate_relevance_score(retrieved_contexts[k], relevant_chunks[r], e)]))])

\* lines 173-194: the loop over chunk_relevance_scores from entry k on
RECURSIVE PrecisionScan(_, _, _)
PrecisionScan(scores, k, acc) ==
    IF k > Len(scores) THEN acc
    ELSE IF scores[k].is_relevant
    THEN LET relevant_count == acc.relevant_count + 1
             position == scores[k].position
             precision_at_i == RDiv(<<relevant_count, 1>>, <<position, 1>>)
         IN  PrecisionScan(scores, k + 1,
                 [ relevant_count |-> relevant_count,
                   precision_sum |-> RAdd(acc.precision_sum, precision_at_i),
                   precision_at_k |-> Append(acc.precision_at_k, precision_at_i),
                   relevant_positions |-> Append(acc.relevant_positions, position),
                   calculation_steps |-> Append(acc.calculation_steps,
                       [ position |-> position, precision |-> precision_at_i,
                         relevant_count |-> relevant_count, total_retrieved |-> position ]) ])
    ELSE PrecisionScan(scores, k + 1, acc)

\* lines 172-210: the average precision and the details, from chunk_relevance_scores
average_precision_of(scores, relevant_chunks, retrieved_contexts) ==
    LET scan == PrecisionScan(scores, 1,
                    [ relevant_count |-> 0, precision_sum |-> Zero,
                      precision_at_k |-> <<>>, relevant_positions |-> <<>>,
                      calculation_steps |-> <<>> ])
        average_precision ==
            IF scan.relevant_count > 0
            THEN RDiv(scan.precision_sum, <<scan.relevant_count, 1>>) ELSE Zero
    IN  << average_precision,
           [ relevant_chunks |-> relevant_chunks,
             precision_at_k |-> scan.precision_at_k,
             relevant_positions |-> scan.relevant_positions,
             calculation_steps |-> scan.calculation_steps,
             chunk_relevance_scores |-> scores,
             total_relevant |-> scan.relevant_count,
             total_retrieved |-> Len(retrieved_contexts) ] >>

\* lines 124-210: calculate_average_precision once relevant_chunks is known
average_precision_for(relevance_threshold, relevant_chunks, retrieved_contexts, e) ==
    IF relevant_chunks = <<>>
    THEN << Zero,
            [ relevant_chunks |-> <<>>, precision_at_k |-> <<>>, relevant_positions |-> <<>>,
              calculation_steps |-> <<>>, chunk_relevance_scores |-> <<>>,
              total_relevant |-> 0, total_retrieved |-> Len(retrieved_contexts) ] >>
    ELSE IF retrieved_contexts = <<>>
    THEN << Zero,
            [ relevant_chunks |-> relevant_chunks, precision_at_k |-> <<>>,
              relevant_positions |-> <<>>, calculation_steps |-> <<>>,
              chunk_relevance_scores |-> <<>>, total_relevant |-> 0, total_retrieved |-> 0 ] >>
    ELSE average_precision_of(
             chunk_relevance_scores(relevance_threshold, retrieved_contexts, relevant_chunks, e),
             relevant_chunks, retrieved_contexts)

\* MAPEvaluator.calculate_average_precision: the pair (average_precision, details)
calculate_average_precision(relevance_threshold, query, retrieved_contexts, reference_contexts, e) ==
    average_precision_for(relevance_threshold,
        MAP_get_relevant_chunks_for_query(query, reference_contexts), retrieved_contexts, e)

MAPResults ==
    [ average_precisions |-> <<>>, detailed_results |-> <<>>, total_queries |-> 0,
      queries_with_relevant_chunks |-> 0, queries_without_relevant_chunks |-> 0, map |-> None ]

\* MAPEvaluator.__init__ reads the threshold once, when the evaluator is built
MAPBuilt(e) ==
    [ pc |-> "idle", idx |-> 0,
      relevance_threshold |-> Getenv(e, "SIMILARITY_THRESHOLD", DefaultSimilarityThreshold),
      results |-> MAPResults ]

\* lines 222-236
MAP_Call ==
    /\ map.pc = "idle"
    /\ map' = [map EXCEPT !.pc = "rows", !.idx = 0, !.results = MAPResults]
    /\ UNCHANGED <<env, call, df, pr, f1, mrr, ndcg>>

\* a row with an empty list passed over without a score
MAP_PassOverRow(m, row) == [m EXCEPT !.idx = @ + 1]

\* lines 251-274: a row with no retrieved or no reference chunks scores 0
MAP_ScoreEmptyRow(m, row) ==
    [m EXCEPT
        !.idx = @ + 1,
        !.results.average_precisions = Append(@, Zero),
        !.results.total_queries = @ + 1,
        !.results.queries_without_relevant_chunks = @ + 1,
        !.results.detailed_results = Append(@,
            [ row_index |-> m.idx,
              user_input |-> row.user_input,
              average_precision |-> Zero,
              retrieved_count |-> Len(row.retrieved_contexts),
              reference_count |-> Len(row.reference_contexts),
              relevant_chunks_count |-> 0,
              calculation_details |->
                  [ relevant_chunks |-> <<>>, precision_at_k |-> <<>>,
                    relevant_positions |-> <<>>, calculation_steps |-> <<>>,
                    chunk_relevance_scores |-> <<>>, total_relevant |-> 0,
                    total_retrieved |-> Len(row.retrieved_contexts) ] ])]

MAP_EmptyRow ==
    /\ map.pc = "rows"
    /\ map.idx < Len(df)
    /\ Row(map.idx + 1).retrieved_contexts = <<>> \/ Row(map.idx + 1).reference_contexts = <<>>
    /\ map' = MAP_ScoreEmptyRow(map, Row(map.idx + 1))
    /\ UNCHANGED <<env, call, df, pr, f1, mrr, ndcg>>

\* lines 285-302: what evaluate_map records of a scored row
MAP_Record(m, row, scored, relevant_chunks_count) ==
    LET found == RLt(Zero, scored[1])
    IN  [m EXCEPT
            !.idx = @ + 1,
            !.results.average_precisions = Append(@, scored[1]),
            !.results.total_queries = @ + 1,
            !.results.queries_with_relevant_chunks = IF found THEN @ + 1 ELSE @,
            !.results.queries_without_relevant_chunks = IF found THEN @ ELSE @ + 1,
            !.results.detailed_results = Append(@,
                [ row_index |-> m.idx,
                  user_input |-> row.user_input,
                  average_precision |-> scored[1],
                  retrieved_count |-> Len(row.retrieved_contexts),
                  reference_count |-> Len(row.reference_contexts),
                  relevant_chunks_count |-> relevant_chunks_count,
                  calculation_details |-> scored[2] ])]

\* lines 276-302: a row with both lists
MAP_ScoreRow(m, row, e) ==
    MAP_Record(m, row,
        calculate_average_precision(m.relevance_threshold, row.user_input,
            row.retrieved_contexts, row.reference_contexts, e),
        Len(MAP_get_relevant_chunks_for_query(row.user_input, row.reference_contexts)))

MAP_Row ==
    /\ map.pc = "rows"
    /\ map.idx < Len(df)
    /\ Row(map.idx + 1).retrieved_contexts # <<>>
    /\ Row(map.idx + 1).reference_contexts # <<>>
    /\ map' = MAP_ScoreRow(map, Row(map.idx + 1), env)
    /\ UNCHANGED <<env, call, df, pr, f1, mrr, ndcg>>

\* lines 341-353
MAP_Return ==
    /\ map.pc = "rows"
    /\ map.idx = Len(df)
    /\ map' = [map EXCEPT
            !.pc = "done",
            !.results.map = IF map.results.average_precisions # <<>>
                            THEN Mean(map.results.average_precisions) ELSE Zero]
    /\ UNCHANGED <<env, call, df, pr, f1, mrr, ndcg>>

-----------------------------------------------------------------------------
(* NDCGEvaluator of NDCG_Metrics.py.                                       *)

\* lines 126-134: the binary relevance of a retrieved chunk against all reference chunks
binary_relevance(relevance_threshold, retrieved_chunk, reference_contexts, e) ==
    LET max_relevance ==
            SeqMax(<<Zero>> \o [r \in 1..Len(reference_contexts) |->
                calculate_relevance_score(retrieved_chunk, reference_contexts[r], e)])
    IN  IF RLt(relevance_threshold, max_relevance) THEN One ELSE Zero

\* NDCGEvaluator.calculate_relevance_scores
calculate_relevance_scores(relevance_threshold, query, retrieved_contexts, reference_contexts, e) ==
    IF retrieved_contexts = <<>> \/ reference_contexts = <<>> THEN <<>>
    ELSE as_list([k \in 1..Len(retrieved_contexts) |->
            binary_relevance(relevance_threshold, retrieved_contexts[k], reference_contexts, e)])

\* 1 / np.log2(n) in millionths, for the n = position + 1 of short lists
InvLog2Micro(n) ==
    CASE n = 2 -> 1000000
      [] n = 3 -> 630930
      [] n = 4 -> 500000
      [] n = 5 -> 430677
      [] n = 6 -> 386853
      [] n = 7 -> 356207
      [] n = 8 -> 333333

\* (2**relevance - 1) / np.log2(position + 1) for a relevance 0.0 or 1.0
discounted_gain(relevance, position) ==
    Rat((2 ^ relevance[1] - 1) * InvLog2Micro(position + 1), 1000000)

\* line 157: the position of index i in calculate_dcg
dcg_position_forward(relevance_scores, i) == i + 1

dcg_position(relevance_scores, i) == Len(relevance_scores) - i

\* NDCGEvaluator.calculate_dcg
calculate_dcg(relevance_scores) ==
    IF relevance_scores = <<>> THEN Zero
    ELSE SeqSum([k \in 1..Len(relevance_scores) |->
            discounted_gain(relevance_scores[k], dcg_position(relevance_scores, k - 1))])

\* the list as it is, not sorted
unsorted(xs) == xs

\* sorted(xs, reverse=True)
RECURSIVE sorted_reverse(_)
sorted_reverse(xs) ==
    IF xs = <<>> THEN <<>>
    ELSE LET top == SeqMax(xs)
             at == IndexOf(xs, top)
         IN  <<top>> \o sorted_reverse(SubSeq(xs, 1, at - 1) \o SubSeq(xs, at + 1, Len(xs)))

\* NDCGEvaluator.calculate_idcg
calculate_idcg(relevance_scores) ==
    IF relevance_scores = <<>> THEN Zero
    ELSE LET ideal_scores == sorted_reverse(relevance_scores)
         IN  SeqSum([k \in 1..Len(ideal_scores) |-> discounted_gain(ideal_scores[k], k)])

\* lines 219-223
ndcg_of(dcg, idcg) == IF RLt(Zero, idcg) THEN RDiv(dcg, idcg) ELSE Zero

\* lines 213-251: the pair (ndcg, details) from the relevance scores; the discount
\* of a calculation step is left out of the step
ndcg_details(relevance_scores, retrieved_contexts) ==
    LET dcg == calculate_dcg(relevance_scores)
        idcg == calculate_idcg(relevance_scores)
        score == ndcg_of(dcg, idcg)
        calculation_steps ==
            [k \in 1..Len(retrieved_contexts) |->
                LET position == Len(retrieved_contexts) - (k - 1)
                IN  [ position |-> position,
                      chunk |-> retrieved_contexts[k],
                      relevance |-> relevance_scores[k],
                      gain |-> <<2 ^ relevance_scores[k][1] - 1, 1>>,
                      dcg_contribution |-> discounted_gain(relevance_scores[k], position) ]]
    IN  << score,
           [ relevance_scores |-> relevance_scores, dcg |-> dcg, idcg |-> idcg,
             ndcg |-> score, calculation_steps |-> calculation_steps,
             total_chunks |-> Len(retrieved_contexts),
             relevant_chunks |-> SeqSum(relevance_scores) ] >>

\* NDCGEvaluator.calculate_ndcg: the pair (ndcg, details)
calculate_ndcg(relevance_threshold, query, retrieved_contexts, reference_contexts, e) ==
    IF retrieved_contexts = <<>> \/ reference_contexts = <<>>
    THEN << Zero, [ relevance_scores |-> <<>>, dcg |-> Zero, idcg |-> Zero, ndcg |-> Zero,
                    calculation_steps |-> <<>> ] >>
    ELSE ndcg_details(
             calculate_relevance_scores(relevance_threshold, query, retrieved_contexts,
                                        reference_contexts, e),
             retrieved_contexts)

NDCGResults ==
    [ ndcg_scores |-> <<>>, detailed_results |-> <<>>, total_queries |-> 0,
      queries_with_relevant_chunks |-> 0, queries_without_relevant_chunks |-> 0,
      avg_ndcg |-> None ]

\* NDCGEvaluator.__init__ reads the threshold once, when the evaluator is built
NDCGBuilt(e) ==
    [ pc |-> "idle", idx |-> 0,
      relevance_threshold |-> Getenv(e, "SIMILARITY_THRESHOLD", DefaultSimilarityThreshold),
      results |-> NDCGResults ]

\* lines 263-277
NDCG_Call ==
    /\ ndcg.pc = "idle"
    /\ ndcg' = [ndcg EXCEPT !.pc = "rows", !.idx = 0, !.results = NDCGResults]
    /\ UNCHANGED <<env, call, df, pr, f1, mrr, map>>

\* lines 285-307: a row with no retrieved or no reference chunks scores 0
NDCG_ScoreEmptyRow(m, row) ==
    [m EXCEPT
        !.idx = @ + 1,
        !.results.ndcg_scores = Append(@, Zero),
        !.results.total_queries = @ + 1,
        !.results.queries_without_relevant_chunks = @ + 1,
        !.results.detailed_results = Append(@,
            [ row_index |-> m.idx,
              user_input |-> row.user_input,
              ndcg |-> Zero,
              dcg |-> Zero,
              idcg |-> Zero,
              retrieved_count |-> Len(row.retrieved_contexts),
              reference_count |-> Len(row.reference_contexts),
              relevant_chunks_count |-> Zero,
              calculation_details |->
                  [ relevance_scores |-> <<>>, dcg |-> Zero, idcg |-> Zero, ndcg |-> Zero,
                    calculation_steps |-> <<>> ] ])]

NDCG_EmptyRow ==
    /\ ndcg.pc = "rows"
    /\ ndcg.idx < Len(df)
    /\ Row(ndcg.idx + 1).retrieved_contexts = <<>> \/ Row(ndcg.idx + 1).reference_contexts = <<>>
    /\ ndcg' = NDCG_ScoreEmptyRow(ndcg, Row(ndcg.idx + 1))
    /\ UNCHANGED <<env, call, df, pr, f1, mrr, map>>

\* lines 314-333: what evaluate_ndcg records of a scored row
NDCG_Record(m, row, scored) ==
    LET found == RLt(Zero, scored[1])
    IN  [m EXCEPT
            !.idx = @ + 1,
            !.results.ndcg_scores = Append(@, scored[1]),
            !.results.total_queries = @ + 1,
            !.results.queries_with_relevant_chunks = IF found THEN @ + 1 ELSE @,
            !.results.queries_without_relevant_chunks = IF found THEN @ ELSE @ + 1,
            !.results.detailed_results = Append(@,
                [ row_index |-> m.idx,
                  user_input |-> row.user_input,
                  ndcg |-> scored[1],
                  dcg |-> scored[2].dcg,
                  idcg |-> scored[2].idcg,
                  retrieved_count |-> Len(row.retrieved_contexts),
                  reference_count |-> Len(row.reference_contexts),
                  relevant_chunks_count |-> scored[2].relevant_chunks,
                  calculation_details |-> scored[2] ])]

\* lines 309-333: a row with both lists
NDCG_ScoreRow(m, row, e) ==
    NDCG_Record(m, row,
        calculate_ndcg(m.relevance_threshold, row.user_input,
            row.retrieved_contexts, row.reference_contexts, e))

NDCG_Row ==
    /\ ndcg.pc = "rows"
    /\ ndcg.idx < Len(df)
    /\ Row(ndcg.idx + 1).retrieved_contexts # <<>>
    /\ Row(ndcg.idx + 1).reference_contexts # <<>>
    /\ ndcg' = NDCG_ScoreRow(ndcg, Row(ndcg.idx + 1), env)
    /\ UNCHANGED <<env, call, df, pr, f1, mrr, map>>

\* lines 380-392
NDCG_Return ==
    /\ ndcg.pc = "rows"
    /\ ndcg.idx = Len(df)
    /\ ndcg' = [ndcg EXCEPT
            !.pc = "done",
            !.results.avg_ndcg = IF ndcg.results.ndcg_scores # <<>>
                                 THEN Mean(ndcg.results.ndcg_scores) ELSE Zero]
    /\ UNCHANGED <<env, call, df, pr, f1, mrr, map>>

-----------------------------------------------------------------------------
(* The texts a similarity call is tried on: up to MaxBlocks blocks joined. *)

MaxBlocks == 3

Blocks == { <<"A", "b", "c", "d", "e", "f">>,
            <<"v", "w", "x", "y", "z">>,
            <<" ">>,
            <<"!">> }

RECURSIVE TextsOf(_)
TextsOf(n) ==
    IF n = 0 THEN {<<>>}
    ELSE LET shorter == TextsOf(n - 1)
         IN  shorter \cup {t \o b : t \in shorter, b \in Blocks}

Texts == TextsOf(MaxBlocks)

SemanticThresholds == {None, <<1, 2>>, <<11, 10>>}

-----------------------------------------------------------------------------

NoCall == [fn |-> "none", args |-> <<>>, ret |-> None]

InitSim ==
    /\ env \in [SIMILARITY_THRESHOLD : {None}, SEMANTIC_CONTAINMENT_THRESHOLD : SemanticThresholds]
    /\ call \in [fn : {"calculate_text_similarity"}, args : Texts \X Texts, ret : {None}]
    /\ df = <<>>
    /\ pr = PRIdle
    /\ f1 = F1Idle
    /\ mrr = MRRBuilt(env)
    /\ map = MAPBuilt(env)
    /\ ndcg = NDCGBuilt(env)

Call_calculate_text_similarity ==
    /\ call.fn = "calculate_text_similarity"
    /\ call.ret = None
    /\ call' = [call EXCEPT !.ret = calculate_text_similarity(call.args[1], call.args[2], env)]
    /\ UNCHANGED <<env, df, pr, f1, mrr, map, ndcg>>

NextSim == Call_calculate_text_similarity

SpecSim == InitSim /\ [][NextSim]_vars

-----------------------------------------------------------------------------
(* One sample evaluated by every evaluator.                                *)

MaxRetrieved == 3
MaxReference == 2

\* the chunk of scenario A, a two-word chunk of twelve characters, and that chunk
\* without its last character
ChunkMaoHeGou == <<"mao", "he", "gou">>
ChunkLong == <<"a", "b", "c", "d", "e", "f", " ", "v", "w", "x", "y", "z">>
ChunkLongCut == <<"a", "b", "c", "d", "e", "f", " ", "v", "w", "x", "y">>

ChunkPool == {ChunkMaoHeGou, ChunkLong, ChunkLongCut}
Queries == {<<>>, <<"mao">>}
SimilarityThresholds == {None, <<4, 5>>}

SeqsUpTo(S, n) == UNION {[1..k -> S] : k \in 0..n}

Samples ==
    [ user_input : Queries,
      retrieved_contexts : SeqsUpTo(ChunkPool, MaxRetrieved),
      reference_contexts : SeqsUpTo(ChunkPool, MaxReference) ]

Init ==
    /\ env \in [SIMILARITY_THRESHOLD : SimilarityThresholds, SEMANTIC_CONTAINMENT_THRESHOLD : {None}]
    /\ call = NoCall
    /\ df \in {<<>>} \cup {<<row>> : row \in Samples}
    /\ pr = PRIdle
    /\ f1 = F1Idle
    /\ mrr = MRRBuilt(env)
    /\ map = MAPBuilt(env)
    /\ ndcg = NDCGBuilt(env)

Next ==
    \/ PR_Call
    \/ PR_Skip
    \/ PR_Matrix
    \/ PR_Retrieved
    \/ PR_Missed
    \/ PR_Return
    \/ F1_Call

\* evaluate_precision_recall on the sample, and the F1 scores of its results
Spec == Init /\ [][Next]_vars

NextMRR ==
    \/ MRR_Call
    \/ MRR_EmptyRow
    \/ MRR_Row
    \/ MRR_Return

\* evaluate_mrr on the sample
SpecMRR == Init /\ [][NextMRR]_vars

NextMAP ==
    \/ MAP_Call
    \/ MAP_EmptyRow
    \/ MAP_Row
    \/ MAP_Return

\* evaluate_map on the sample
SpecMAP == Init /\ [][NextMAP]_vars

NextNDCG ==
    \/ NDCG_Call
    \/ NDCG_EmptyRow
    \/ NDCG_Row
    \/ NDCG_Return

\* evaluate_ndcg on the sample
SpecNDCG == Init /\ [][NextNDCG]_vars

-----------------------------------------------------------------------------
(* The two F1 functions called on the same pair of arguments.              *)

MaxF1Numerator == 8

\* None, and the quarters from -1/2 to MaxF1Numerator/4
F1Arguments == {None} \cup {Rat(n, 4) : n \in -2..MaxF1Numerator}

InitF1 ==
    /\ env = [SIMILARITY_THRESHOLD |-> None, SEMANTIC_CONTAINMENT_THRESHOLD |-> None]
    /\ call \in [fn : {"calculate_f1_score"}, args : F1Arguments \X F1Arguments,
                 ret : {[method |-> Pending, function |-> Pending]}]
    /\ df = <<>>
    /\ pr = PRIdle
    /\ f1 = F1Idle
    /\ mrr = MRRBuilt(env)
    /\ map = MAPBuilt(env)
    /\ ndcg = NDCGBuilt(env)

Call_F1ScoreCalculator_calculate_f1_score ==
    /\ call.fn = "calculate_f1_score"
    /\ call.ret.method = Pending
    /\ call' = [call EXCEPT !.ret.method =
                    F1ScoreCalculator_calculate_f1_score(call.args[1], call.args[2])]
    /\ UNCHANGED <<env, df, pr, f1, mrr, map, ndcg>>

Call_calculate_f1_score ==
    /\ call.fn = "calculate_f1_score"
    /\ call.ret.function = Pending
    /\ call' = [call EXCEPT !.ret.function = calculate_f1_score(call.args[1], call.args[2])]
    /\ UNCHANGED <<env, df, pr, f1, mrr, map, ndcg>>

NextF1 ==
    \/ Call_F1ScoreCalculator_calculate_f1_score
    \/ Call_calculate_f1_score

SpecF1 == InitF1 /\ [][NextF1]_vars

-----------------------------------------------------------------------------
(* The evaluations as functions of the dataset: the row steps of the       *)
(* actions, applied to the rows in order.                                  *)

\* lines 326-362 for every retrieved chunk of the row
RECURSIVE PR_Classified(_, _, _)
PR_Classified(f, row, e) ==
    IF f.i = Len(row.retrieved_contexts) THEN f
    ELSE PR_Classified(ClassifyRetrieved(f, row, e), row, e)

\* lines 312-412: a row with both lists
PR_RowScored(f, row, e) ==
    FinishRow(
        PR_Classified([f EXCEPT !.pc = "retrieved",
                                !.i = 0,
                                !.similarity_matrix = SimilarityMatrix(row, e),
                                !.relevant_retrieved = <<>>,
                                !.matched_references = {},
                                !.total_relevance_score = Zero],
                      row, e),
        row)

\* BM25Evaluator.evaluate_precision_recall from row f.idx on
RECURSIVE evaluate_precision_recall(_, _, _)
evaluate_precision_recall(f, rows, e) ==
    IF f.idx = Len(rows) THEN Averages(f)
    ELSE IF rows[f.idx + 1].retrieved_contexts = <<>> \/ rows[f.idx + 1].reference_contexts = <<>>
         THEN evaluate_precision_recall([f EXCEPT !.idx = @ + 1], rows, e)
         ELSE evaluate_precision_recall(PR_RowScored(f, rows[f.idx + 1], e), rows, e)

\* the rows of MRREvaluator.evaluate_mrr from row m.idx on
RECURSIVE evaluate_mrr(_, _, _)
evaluate_mrr(m, rows, e) ==
    IF m.idx = Len(rows) THEN m
    ELSE IF rows[m.idx + 1].retrieved_contexts = <<>> \/ rows[m.idx + 1].reference_contexts = <<>>
         THEN evaluate_mrr(ScoreEmptyRow(m, rows[m.idx + 1]), rows, e)
         ELSE evaluate_mrr(ScoreRow(m, rows[m.idx + 1], e), rows, e)

\* the rows of MAPEvaluator.evaluate_map from row m.idx on
RECURSIVE evaluate_map(_, _, _)
evaluate_map(m, rows, e) ==
    IF m.idx = Len(rows) THEN m
    ELSE IF rows[m.idx + 1].retrieved_contexts = <<>> \/ rows[m.idx + 1].reference_contexts = <<>>
         THEN evaluate_map(MAP_ScoreEmptyRow(m, rows[m.idx + 1]), rows, e)
         ELSE evaluate_map(MAP_ScoreRow(m, rows[m.idx + 1], e), rows, e)

\* the rows of NDCGEvaluator.evaluate_ndcg from row m.idx on
RECURSIVE evaluate_ndcg(_, _, _)
evaluate_ndcg(m, rows, e) ==
    IF m.idx = Len(rows) THEN m
    ELSE IF rows[m.idx + 1].retrieved_contexts = <<>> \/ rows[m.idx + 1].reference_contexts = <<>>
         THEN evaluate_ndcg(NDCG_ScoreEmptyRow(m, rows[m.idx + 1]), rows, e)
         ELSE evaluate_ndcg(NDCG_ScoreRow(m, rows[m.idx + 1], e), rows, e)

-----------------------------------------------------------------------------
(* A dataset of several samples evaluated by every evaluator, one request  *)
(* at a time.                                                              *)

MaxRows == 2

\* a query and chunk of ten characters that give ten distinct tokens
ChunkTenTokens == <<"mao", "he", "gou", "fen", "tui", "du", "ben", "zui", "ji", "yue">>
\* a chunk without any token
ChunkNoToken == <<"!">>

SampleEmptyRetrieved ==
    [ user_input |-> <<"mao">>, retrieved_contexts |-> <<>>,
      reference_contexts |-> <<ChunkLong>> ]
SampleEmptyReference ==
    [ user_input |-> <<"mao">>, retrieved_contexts |-> <<ChunkLong>>,
      reference_contexts |-> <<>> ]
\* precision 1/2 and recall 1
SampleHalfPrecision ==
    [ user_input |-> <<"mao">>, retrieved_contexts |-> <<ChunkMaoHeGou, ChunkLong>>,
      reference_contexts |-> <<ChunkLong>> ]
\* precision 1 and recall 1/2, with an empty query
SampleHalfRecall ==
    [ user_input |-> <<>>, retrieved_contexts |-> <<ChunkLong>>,
      reference_contexts |-> <<ChunkLong, ChunkMaoHeGou>> ]
SampleTenTokens ==
    [ user_input |-> ChunkTenTokens, retrieved_contexts |-> <<ChunkTenTokens>>,
      reference_contexts |-> <<ChunkTenTokens>> ]
\* an empty string retrieved and a reference chunk without tokens
SampleBlank ==
    [ user_input |-> <<"mao">>, retrieved_contexts |-> << <<>> >>,
      reference_contexts |-> <<ChunkNoToken>> ]

SamplePool ==
    { SampleEmptyRetrieved, SampleEmptyReference, SampleHalfPrecision,
      SampleHalfRecall, SampleTenTokens, SampleBlank }

InitData ==
    /\ env = [SIMILARITY_THRESHOLD |-> None, SEMANTIC_CONTAINMENT_THRESHOLD |-> None]
    /\ call = NoCall
    /\ df \in SeqsUpTo(SamplePool, MaxRows)
    /\ pr = PRIdle
    /\ f1 = F1Idle
    /\ mrr = MRRBuilt(env)
    /\ map = MAPBuilt(env)
    /\ ndcg = NDCGBuilt(env)

\* no evaluation is under way: a request handler of app.py runs its evaluation
\* to the end before the next request is served
Quiescent ==
    /\ pr.pc \in {"idle", "done"}
    /\ mrr.pc \in {"idle", "done"}
    /\ map.pc \in {"idle", "done"}
    /\ ndcg.pc \in {"idle", "done"}

NextData ==
    \/ Quiescent /\ PR_Call
    \/ PR_Skip
    \/ PR_Matrix
    \/ PR_Retrieved
    \/ PR_Missed
    \/ PR_Return
    \/ Quiescent /\ F1_Call
    \/ Quiescent /\ MRR_Call
    \/ MRR_EmptyRow
    \/ MRR_Row
    \/ MRR_Return
    \/ Quiescent /\ MAP_Call
    \/ MAP_EmptyRow
    \/ MAP_Row
    \/ MAP_Return
    \/ Quiescent /\ NDCG_Call
    \/ NDCG_EmptyRow
    \/ NDCG_Row
    \/ NDCG_Return

\* the four evaluations of the dataset, in any order
SpecData == InitData /\ [][NextData]_vars

-----------------------------------------------------------------------------
(* BM25.score called on an index, fitted on a corpus or never fitted, with *)
(* any document index.                                                     *)

MaxCorpus == 2

ChunkAB == <<"a", "b">>
CorpusChunks == {ChunkMaoHeGou, ChunkAB, <<>>}
BM25Queries == {<<"mao">>, ChunkAB, <<>>}
DocIndexes == (-(MaxCorpus + 1))..(MaxCorpus + 1)

\* args: the corpus the index was fitted on (None: never fitted), the query
\* and doc_index
InitBM25 ==
    /\ env = [SIMILARITY_THRESHOLD |-> None, SEMANTIC_CONTAINMENT_THRESHOLD |-> None]
    /\ call \in [fn : {"BM25.score"},
                  args : (SeqsUpTo(CorpusChunks, MaxCorpus) \cup {None})
                            \X BM25Queries \X DocIndexes,
                  ret : {Pending}]
    /\ df = <<>>
    /\ pr = PRIdle
    /\ f1 = F1Idle
    /\ mrr = MRRBuilt(env)
    /\ map = MAPBuilt(env)
    /\ ndcg = NDCGBuilt(env)

IndexOfCall(corpus) == IF corpus = None THEN BM25_new ELSE BM25_fit(corpus)

Call_BM25_score ==
    /\ call.fn = "BM25.score"
    /\ call.ret = Pending
    /\ call' = [call EXCEPT !.ret = BM25_score(IndexOfCall(call.args[1]),
                                               call.args[2], call.args[3])]
    /\ UNCHANGED <<env, df, pr, f1, mrr, map, ndcg>>

NextBM25 == Call_BM25_score

SpecBM25 == InitBM25 /\ [][NextBM25]_vars

-----------------------------------------------------------------------------
(* The evaluations of a dataset requested again: the caller keeps the      *)
(* results of the run before as `previous'.                                *)

RerunPool == {SampleEmptyRetrieved, SampleHalfPrecision, SampleTenTokens}

InitRerun ==
    /\ env = [SIMILARITY_THRESHOLD |-> None, SEMANTIC_CONTAINMENT_THRESHOLD |-> None]
    /\ call = NoCall
    /\ df \in SeqsUpTo(RerunPool, MaxRows)
    /\ pr = PRIdle
    /\ f1 = F1Idle
    /\ mrr = MRRBuilt(env)
    /\ map = MAPBuilt(env)
    /\ ndcg = NDCGBuilt(env)

\* the results dictionary of the run before taken up again in the place of a
\* new one
PR_RerunOnResults ==
    /\ pr.pc = "done"
    /\ pr' = [previous |-> pr.results] @@
              [pr EXCEPT !.pc = "rows", !.idx = 0,
                         !.similarity_threshold =
                             Getenv(env, "SIMILARITY_THRESHOLD", DefaultSimilarityThreshold)]
    /\ UNCHANGED <<env, call, df, f1, mrr, map, ndcg>>

\* BM25_evaluate.py lines 583-606 and 283-299, F1_Metrics.py line 112:
\* run_evaluation called again on the evaluator; results is a new dictionary
PR_Rerun ==
    /\ pr.pc = "done"
    /\ pr' = [previous |-> pr.results] @@
              [PRIdle EXCEPT !.pc = "rows", !.idx = 0,
                             !.similarity_threshold =
                                 Getenv(env, "SIMILARITY_THRESHOLD", DefaultSimilarityThreshold)]
    /\ UNCHANGED <<env, call, df, f1, mrr, map, ndcg>>

\* app.py lines 256-258: the next request builds an evaluator and runs it
MRR_Rerun ==
    /\ mrr.pc = "done"
    /\ mrr' = [previous |-> mrr.results] @@ [MRRBuilt(env) EXCEPT !.pc = "rows"]
    /\ UNCHANGED <<env, call, df, pr, f1, map, ndcg>>

\* app.py lines 310-312
MAP_Rerun ==
    /\ map.pc = "done"
    /\ map' = [previous |-> map.results] @@ [MAPBuilt(env) EXCEPT !.pc = "rows"]
    /\ UNCHANGED <<env, call, df, pr, f1, mrr, ndcg>>

\* app.py lines 364-366
NDCG_Rerun ==
    /\ ndcg.pc = "done"
    /\ ndcg' = [previous |-> ndcg.results] @@ [NDCGBuilt(env) EXCEPT !.pc = "rows"]
    /\ UNCHANGED <<env, call, df, pr, f1, mrr, map>>

NextRerun ==
    \/ Quiescent /\ PR_Call
    \/ Quiescent /\ PR_Rerun
    \/ PR_Skip
    \/ PR_Matrix
    \/ PR_Retrieved
    \/ PR_Missed
    \/ PR_Return
    \/ Quiescent /\ MRR_Call
    \/ Quiescent /\ MRR_Rerun
    \/ MRR_EmptyRow
    \/ MRR_Row
    \/ MRR_Return
    \/ Quiescent /\ MAP_Call
    \/ Quiescent /\ MAP_Rerun
    \/ MAP_EmptyRow
    \/ MAP_Row
    \/ MAP_Return
    \/ Quiescent /\ NDCG_Call
    \/ Quiescent /\ NDCG_Rerun
    \/ NDCG_EmptyRow
    \/ NDCG_Row
    \/ NDCG_Return

\* the four evaluations of the dataset, each requested any number of times
SpecRerun == InitRerun /\ [][NextRerun]_vars

-----------------------------------------------------------------------------
(* evaluate_precision_recall on a dataset while the environment of the     *)
(* process is written.                                                     *)

\* both retrieved chunks have similarity 4/5 to the reference chunk
SampleTwoCuts ==
    [ user_input |-> <<"mao">>, retrieved_contexts |-> <<ChunkLongCut, ChunkLongCut>>,
      reference_contexts |-> <<ChunkLong>> ]

EnvPool == {SampleTwoCuts, SampleHalfPrecision, SampleEmptyRetrieved}
EnvSemanticThresholds == {None, <<1, 2>>}

InitEnv ==
    /\ env \in [SIMILARITY_THRESHOLD : SimilarityThresholds,
                 SEMANTIC_CONTAINMENT_THRESHOLD : EnvSemanticThresholds]
    /\ call = NoCall
    /\ df \in SeqsUpTo(EnvPool, MaxRows)
    /\ pr = PRIdle
    /\ f1 = F1Idle
    /\ mrr = MRRBuilt(env)
    /\ map = MAPBuilt(env)
    /\ ndcg = NDCGBuilt(env)

\* os.environ is one mapping for the whole process: a write to it by another
\* thread, at any point of a run
SetEnv ==
    /\ \/ \E value \in SimilarityThresholds :
            env' = [env EXCEPT !.SIMILARITY_THRESHOLD = value]
       \/ \E value \in EnvSemanticThresholds :
            env' = [env EXCEPT !.SEMANTIC_CONTAINMENT_THRESHOLD = value]
    /\ env' # env
    /\ UNCHANGED <<call, df, pr, f1, mrr, map, ndcg>>

NextEnv ==
    \/ PR_Call
    \/ PR_Skip
    \/ PR_Matrix
    \/ PR_Retrieved
    \/ PR_Missed
    \/ PR_Return
    \/ SetEnv

SpecEnv == InitEnv /\ [][NextEnv]_vars

-----------------------------------------------------------------------------
(* Claims about calculate_text_similarity, under SpecSim.                  *)

SimReturned == call.fn = "calculate_text_similarity" /\ call.ret # None

HasNoWords(text) == WordSet(clean_text(text)) = {}

\* C1: every returned similarity lies in [0,1], and it is exactly 0 when either
\* argument is the empty string or cleans to a text without words.
C1_SimilarityInUnitInterval ==
    SimReturned =>
        /\ RLe(Zero, call.ret)
        /\ RLe(call.ret, One)
        /\ (\/ call.args[1] = <<>>
            \/ call.args[2] = <<>>
            \/ HasNoWords(call.args[1])
            \/ HasNoWords(call.args[2])) => call.ret = Zero

\* a non-empty argument that cleans to nothing, against a text with words
C1_Witness ==
    /\ SimReturned
    /\ call.args[1] # <<>>
    /\ HasNoWords(call.args[1])
    /\ ~HasNoWords(call.args[2])
    /\ call.ret = Zero

\* C3 as claimed: two equal strings of more than 10 characters have similarity 1.
C3_EqualLongStringsScoreOne ==
    (SimReturned /\ call.args[1] = call.args[2] /\ Len(call.args[1]) > 10)
        => call.ret = One

\* C3 as amended: two equal strings whose cleaned text has more than 10
\* characters have similarity 1, whatever the semantic containment threshold.
C3_EqualLongCleanedScoreOne ==
    (SimReturned /\ call.args[1] = call.args[2] /\ Len(clean_text(call.args[1])) > 10)
        => call.ret = One

C3_Witness ==
    /\ SimReturned
    /\ call.args[1] = call.args[2]
    /\ Len(clean_text(call.args[1])) > 10
    /\ Len(clean_text(call.args[1])) < Len(call.args[1])
    /\ env.SEMANTIC_CONTAINMENT_THRESHOLD = <<11, 10>>
    /\ call.ret = One

-----------------------------------------------------------------------------
(* Claim about the F1 functions, under SpecF1.                             *)

F1Returned ==
    /\ call.fn = "calculate_f1_score"
    /\ call.ret.method # Pending
    /\ call.ret.function # Pending

IsScore(x) == x # None /\ RLe(Zero, x)

\* C9: on every pair of arguments the method and the module-level function
\* return the same value; on scores p, r >= 0 that value is 2pr/(p+r) when
\* p + r > 0 and 0 otherwise, so it is 0 when p = r = 0.
C9_F1IsHarmonicMean ==
    F1Returned =>
        LET p == call.args[1]
            r == call.args[2]
        IN  /\ call.ret.method = call.ret.function
            /\ (IsScore(p) /\ IsScore(r)) =>
                   call.ret.function =
                       IF RLt(Zero, RAdd(p, r))
                       THEN RDiv(RMul(<<2, 1>>, RMul(p, r)), RAdd(p, r))
                       ELSE Zero
            /\ (p = Zero /\ r = Zero) => call.ret.function = Zero

\* unequal positive scores, whose F1 lies strictly between them
C9_Witness ==
    /\ F1Returned
    /\ call.args = << <<1, 2>>, <<1, 4>> >>
    /\ call.ret.function = <<1, 3>>
    /\ call.ret.method = <<1, 3>>

-----------------------------------------------------------------------------
(* Claims about evaluate_precision_recall, under Spec.                     *)

Threshold == Getenv(env, "SIMILARITY_THRESHOLD", DefaultSimilarityThreshold)

\* the rows evaluate_precision_recall has scored so far (0-based)
ScoredRows ==
    {k \in 0..(Len(df) - 1) :
        /\ k < pr.idx
        /\ df[k + 1].retrieved_contexts # <<>>
        /\ df[k + 1].reference_contexts # <<>>}

RetrievedOf(k) == 0..(Len(df[k + 1].retrieved_contexts) - 1)
ReferenceOf(k) == 0..(Len(df[k + 1].reference_contexts) - 1)

DetailOf(k) ==
    pr.results.detailed_results[CHOOSE n \in 1..Len(pr.results.detailed_results) :
                                    pr.results.detailed_results[n].row_index = k]

\* similarity of retrieved chunk i and reference chunk j of row k, as the
\* evaluation recorded it in the sample's similarity matrix
Sim(k, i, j) == DetailOf(k).similarity_matrix[i + 1][j + 1]

\* the recorded matrix holds calculate_relevance_score of every pair
MatrixIsSimilarity(k) ==
    DetailOf(k).similarity_matrix =
        [i \in 1..Len(df[k + 1].retrieved_contexts) |->
            [j \in 1..Len(df[k + 1].reference_contexts) |->
                calculate_relevance_score(df[k + 1].retrieved_contexts[i],
                                          df[k + 1].reference_contexts[j], env)]]

EntriesOf(list, k) == {n \in 1..Len(list) : list[n].row_index = k}
RelevantEntries(k, i) ==
    {n \in EntriesOf(pr.results.relevant_chunks, k) :
        pr.results.relevant_chunks[n].retrieved_idx = i}
IrrelevantEntries(k, i) ==
    {n \in EntriesOf(pr.results.irrelevant_chunks, k) :
        pr.results.irrelevant_chunks[n].retrieved_idx = i}
MissedEntries(k, j) ==
    {n \in EntriesOf(pr.results.missed_chunks, k) :
        pr.results.missed_chunks[n].reference_idx = j}
SomePairAbove(k) == \E i \in RetrievedOf(k), j \in ReferenceOf(k) : RLt(Threshold, Sim(k, i, j))

IsIdentitySample ==
    /\ Len(df) = 1
    /\ Len(df[1].retrieved_contexts) = 1
    /\ df[1].reference_contexts = df[1].retrieved_contexts
    /\ clean_text(df[1].retrieved_contexts[1]) # <<>>
    /\ env.SIMILARITY_THRESHOLD = None
    /\ pr.pc = "done"
    /\ f1.pc = "done"

\* C2 as claimed: the sample retrieved = [x], reference = [x] at threshold 0.5
\* has similarity 1 and precision = recall = f1 = 1.
C2_IdentityScoresOne ==
    IsIdentitySample =>
        /\ DetailOf(0).similarity_matrix[1][1] = One
        /\ pr.results.precision_scores = <<One>>
        /\ pr.results.recall_scores = <<One>>
        /\ f1.f1_scores = <<One>>

\* C2 as amended: that sample has similarity s = 1 when the cleaned x has more
\* than 10 characters and s = 0.95 otherwise, x is relevant, and
\* precision = recall = f1 = s.
C2_IdentityScoresItsSimilarity ==
    IsIdentitySample =>
        LET s == IF Len(clean_text(df[1].retrieved_contexts[1])) > 10 THEN One ELSE <<19, 20>>
        IN  /\ DetailOf(0).similarity_matrix[1][1] = s
            /\ Cardinality(RelevantEntries(0, 0)) = 1
            /\ pr.results.precision_scores = <<s>>
            /\ pr.results.recall_scores = <<s>>
            /\ f1.f1_scores = <<s>>

\* the three-character chunk of scenario A
C2_Witness ==
    /\ IsIdentitySample
    /\ df[1].retrieved_contexts = <<ChunkMaoHeGou>>
    /\ f1.f1_scores = << <<19, 20>> >>

\* C4: the recall of every scored sample lies in [0,1].
C4_RecallInUnitInterval ==
    \A k \in ScoredRows : RLe(Zero, DetailOf(k).recall) /\ RLe(DetailOf(k).recall, One)

\* C5: for every scored sample, total_relevance_score <= number of retrieved
\* chunks classified relevant <= R, and precision = total_relevance_score / R
\* lies in [0,1].
C5_PrecisionInUnitInterval ==
    \A k \in ScoredRows :
        LET d == DetailOf(k)
            R == Len(df[k + 1].retrieved_contexts)
        IN  /\ d.relevant_count = Cardinality(EntriesOf(pr.results.relevant_chunks, k))
            /\ RLe(d.total_relevance_score, <<d.relevant_count, 1>>)
            /\ d.relevant_count <= R
            /\ d.precision = RDiv(d.total_relevance_score, <<R, 1>>)
            /\ RLe(Zero, d.precision)
            /\ RLe(d.precision, One)

\* two relevant chunks whose scores add up to less than 2, with more retrieved
\* chunks than reference chunks
C5_Witness ==
    \E k \in ScoredRows :
        /\ DetailOf(k).relevant_count = 2
        /\ RLt(DetailOf(k).total_relevance_score, <<2, 1>>)
        /\ DetailOf(k).retrieved_count > DetailOf(k).reference_count

\* C6: retrieved chunk i of a scored sample is listed relevant iff its largest
\* similarity to a reference chunk is strictly above the threshold, and otherwise
\* listed irrelevant; a relevant entry records that largest similarity and the
\* smallest reference index that attains it.
C6_RelevantIffStrictlyAbove ==
    \A k \in ScoredRows :
        /\ MatrixIsSimilarity(k)
        /\ \A i \in RetrievedOf(k) :
              LET above == \E j \in ReferenceOf(k) : RLt(Threshold, Sim(k, i, j))
              IN  /\ Cardinality(RelevantEntries(k, i)) = IF above THEN 1 ELSE 0
                  /\ Cardinality(IrrelevantEntries(k, i)) = IF above THEN 0 ELSE 1
                  /\ \A n \in RelevantEntries(k, i) :
                        LET entry == pr.results.relevant_chunks[n]
                        IN  /\ entry.reference_idx \in ReferenceOf(k)
                            /\ entry.relevance_score = Sim(k, i, entry.reference_idx)
                            /\ \A j \in ReferenceOf(k) :
                                  RLe(Sim(k, i, j), entry.relevance_score)
                            /\ \A j \in ReferenceOf(k) :
                                  j < entry.reference_idx =>
                                      RLt(Sim(k, i, j), entry.relevance_score)

\* a chunk whose best similarity equals the threshold is listed irrelevant, next
\* to two relevant chunks that record the same reference index, which is the
\* first of two reference chunks attaining the maximum
C6_Witness ==
    \E k \in ScoredRows :
        /\ \E n \in EntriesOf(pr.results.irrelevant_chunks, k) :
              /\ pr.results.irrelevant_chunks[n].max_relevance = Threshold
        /\ \E m, n \in EntriesOf(pr.results.relevant_chunks, k) :
              /\ m # n
              /\ pr.results.relevant_chunks[m].reference_idx =
                     pr.results.relevant_chunks[n].reference_idx
        /\ pr.pc = "done"

\* C7: reference chunk j of a scored sample is listed missed iff its largest
\* similarity to a retrieved chunk is at most the threshold, whether or not some
\* retrieved chunk recorded j as its best match.
C7_MissedIffNoneAbove ==
    \A k \in ScoredRows : \A j \in ReferenceOf(k) :
        Cardinality(MissedEntries(k, j)) =
            IF \A i \in RetrievedOf(k) : RLe(Sim(k, i, j), Threshold) THEN 1 ELSE 0

\* a reference chunk that no retrieved chunk recorded as its best match and that
\* is not missed, because another reference chunk absorbed the match
C7_Witness ==
    \E k \in ScoredRows : \E j \in ReferenceOf(k) :
        /\ \A n \in EntriesOf(pr.results.relevant_chunks, k) :
              pr.results.relevant_chunks[n].reference_idx # j
        /\ MissedEntries(k, j) = {}

\* C8: when no retrieved/reference pair of a scored sample has a similarity above
\* the threshold, its precision and recall are 0, every retrieved chunk is listed
\* irrelevant and every reference chunk is listed missed.
C8_NoOverlapScoresZero ==
    \A k \in ScoredRows :
        ~SomePairAbove(k) =>
            /\ DetailOf(k).precision = Zero
            /\ DetailOf(k).recall = Zero
            /\ \A i \in RetrievedOf(k) : IrrelevantEntries(k, i) # {}
            /\ \A j \in ReferenceOf(k) : MissedEntries(k, j) # {}
            /\ EntriesOf(pr.results.relevant_chunks, k) = {}

\* no pair above the threshold although one pair reaches it exactly
C8_Witness ==
    \E k \in ScoredRows :
        /\ ~SomePairAbove(k)
        /\ \E i \in RetrievedOf(k), j \in ReferenceOf(k) : Sim(k, i, j) = Threshold
        /\ Len(df[k + 1].reference_contexts) = 2

-----------------------------------------------------------------------------
(* Claims about evaluate_mrr, checked under SpecMRR.                        *)

\* the positions N - i of the retrieved chunks of a sample whose similarity to some
\* eligible reference chunk is above the evaluator's threshold
RelevantPositions(row) ==
    LET N == Len(row.retrieved_contexts)
        eligible == get_relevant_chunks_for_query(row.user_input, row.reference_contexts)
    IN  {N - i : i \in {i \in 0..(N - 1) :
            \E r \in 1..Len(eligible) :
                RLt(mrr.relevance_threshold,
                    calculate_relevance_score(row.retrieved_contexts[i + 1], eligible[r], env))}}

\* C10: the reciprocal rank recorded for a sample with N retrieved chunks is 1/p
\* with p the smallest N - i over the retrieved chunks i that are above the
\* threshold for some eligible reference chunk, and 0 when there is none; so it
\* is 0 or 1/k with k in 1..N, duplicates in the retrieved list included.
C10_ReciprocalRankIsInverseMinPosition ==
    \A n \in 1..Len(mrr.results.detailed_results) :
        LET d == mrr.results.detailed_results[n]
            row == df[d.row_index + 1]
            P == RelevantPositions(row)
        IN  /\ d.reciprocal_rank =
                  IF P = {} THEN Zero ELSE <<1, CHOOSE p \in P : \A q \in P : p <= q>>
            /\ mrr.results.reciprocal_ranks[n] = d.reciprocal_rank
            /\ \/ d.reciprocal_rank = Zero
               \/ \E k \in 1..Len(row.retrieved_contexts) : d.reciprocal_rank = <<1, k>>

\* three retrieved chunks of which the first two are the same relevant text and
\* the last is not relevant: the later copy gives position 2
C10_Witness ==
    /\ mrr.pc = "done"
    /\ Len(df) = 1
    /\ Len(df[1].retrieved_contexts) = 3
    /\ df[1].retrieved_contexts[1] = df[1].retrieved_contexts[2]
    /\ df[1].retrieved_contexts[3] # df[1].retrieved_contexts[2]
    /\ mrr.results.reciprocal_ranks = << <<1, 2>> >>

-----------------------------------------------------------------------------
(* Claims about evaluate_map, checked under SpecMAP.                        *)

\* the similarity of every pair of chunks of the pool, under every environment
Environments ==
    [SIMILARITY_THRESHOLD : SimilarityThresholds, SEMANTIC_CONTAINMENT_THRESHOLD : {None}]

SimilarityOfPairs ==
    [t \in Environments \X ChunkPool \X ChunkPool |->
        calculate_relevance_score(t[2], t[3], t[1])] @@ <<>>

\* whether a reference chunk of the pool, alone in a list, passes the BM25 filter
\* of a query
EligibleOfPairs ==
    [t \in Queries \X ChunkPool |->
        MAP_get_relevant_chunks_for_query(t[1], <<t[2]>>) # <<>>] @@ <<>>

\* the indices i of the retrieved chunks of a sample whose similarity to some
\* eligible reference chunk is above the evaluator's threshold
MAPRelevantIndices(row) ==
    {i \in 0..(Len(row.retrieved_contexts) - 1) :
        \E r \in 1..Len(row.reference_contexts) :
            /\ EligibleOfPairs[<<row.user_input, row.reference_contexts[r]>>]
            /\ RLt(map.relevance_threshold,
                   SimilarityOfPairs[<<env, row.retrieved_contexts[i + 1],
                                       row.reference_contexts[r]>>])}

\* the values c/(N - i) of a scan over N chunks whose relevant indices are I, in
\* the order of the scan: the k-th relevant index counts c = k
RecordedPrecisions(N, I) ==
    [k \in 1..Cardinality(I) |->
        LET i == CHOOSE i \in I : Cardinality({j \in I : j <= i}) = k
        IN  Rat(k, N - i)]

-----------------------------------------------------------------------------
(* Claims about evaluate_ndcg, checked under SpecNDCG.                      *)

\* the samples evaluate_ndcg has scored with calculate_ndcg past its guard
NDCGScored ==
    {n \in 1..Len(ndcg.results.detailed_results) :
        /\ df[ndcg.results.detailed_results[n].row_index + 1].retrieved_contexts # <<>>
        /\ df[ndcg.results.detailed_results[n].row_index + 1].reference_contexts # <<>>}

\* 1/log2(position + 1), summed over a set of positions
RECURSIVE SumOfDiscounts(_)
SumOfDiscounts(positions) ==
    IF positions = {} THEN Zero
    ELSE LET p == CHOOSE q \in positions : TRUE
         IN  RAdd(Rat(InvLog2Micro(p + 1), 1000000), SumOfDiscounts(positions \ {p}))

\* C14: for the binary relevance vector rel[0..N-1] of a sample, in retrieval
\* order, DCG is the sum of 1/log2((N - i) + 1) over the i with rel[i] = 1, IDCG
\* the sum of 1/log2(j + 1) over j = 1..m with m the number of ones, and NDCG is
\* DCG/IDCG, or 0 when IDCG = 0; rel = [1,0,1] gives DCG = 1.5, IDCG = 1.6309
\* and NDCG = 0.9197 to four places.
C14_NDCGOfReversedPositions ==
    \A n \in NDCGScored :
        LET d == ndcg.results.detailed_results[n]
            rel == d.calculation_details.relevance_scores
            N == Len(rel)
            ones == {i \in 0..(N - 1) : rel[i + 1] = One}
            dcg == SumOfDiscounts({N - i : i \in ones})
            idcg == SumOfDiscounts(1..Cardinality(ones))
        IN  /\ N = Len(df[d.row_index + 1].retrieved_contexts)
            /\ \A i \in 0..(N - 1) : rel[i + 1] \in {Zero, One}
            /\ d.dcg = dcg
            /\ d.idcg = idcg
            /\ d.ndcg = IF idcg = Zero THEN Zero ELSE RDiv(dcg, idcg)
            /\ ndcg.results.ndcg_scores[n] = d.ndcg
            /\ rel = <<One, Zero, One>> =>
                  /\ d.dcg = <<3, 2>>
                  /\ RLe(<<16309, 10000>>, d.idcg) /\ RLt(d.idcg, <<16310, 10000>>)
                  /\ RLe(<<9197, 10000>>, d.ndcg) /\ RLt(d.ndcg, <<9198, 10000>>)

\* a sample whose relevance vector is [1,0,1]
C14_Witness ==
    /\ ndcg.pc = "done"
    /\ Len(df) = 1
    /\ ndcg.results.detailed_results[1].calculation_details.relevance_scores = <<One, Zero, One>>
    /\ ndcg.results.detailed_results[1].dcg = <<3, 2>>
    /\ ndcg.results.detailed_results[1].idcg = <<163093, 100000>>
    /\ ndcg.results.ndcg_scores = << <<150000, 163093>> >>

\* C15: the NDCG recorded for a sample is at least 0 and at most 1, for every
\* number of retrieved chunks and every binary relevance vector, although DCG
\* takes reversed positions and IDCG forward ones.
C15_NDCGInUnitInterval ==
    \A n \in 1..Len(ndcg.results.detailed_results) :
        LET d == ndcg.results.detailed_results[n]
        IN  /\ RLe(Zero, d.ndcg) /\ RLe(d.ndcg, One)
            /\ n \in NDCGScored => RLe(d.dcg, d.idcg)
            /\ ndcg.results.ndcg_scores[n] = d.ndcg

\* two retrieved chunks of which only the first is relevant: it has position 2
\* in DCG and position 1 in IDCG, and NDCG is strictly between 0 and 1
C15_Witness ==
    /\ ndcg.pc = "done"
    /\ Len(df) = 1
    /\ ndcg.results.detailed_results[1].calculation_details.relevance_scores = <<One, Zero>>
    /\ RLt(Zero, ndcg.results.ndcg_scores[1])
    /\ RLt(ndcg.results.ndcg_scores[1], One)

-----------------------------------------------------------------------------
(* Claims about the evaluations of a dataset, checked under SpecData.       *)

\* the samples of the dataset none of whose reference chunks passes the BM25
\* check of the query, the samples with an empty query among them
NoEligibleReference(row) ==
    \A r \in 1..Len(row.reference_contexts) :
        \/ row.user_input = <<>>
        \/ ~is_chunk_relevant(row.user_input, row.reference_contexts[r])

\* NoEligibleReference of every sample of the pool
NoEligibleReferenceOf == [row \in SamplePool |-> NoEligibleReference(row)] @@ <<>>

\* C12: a sample whose retrieved list is empty, or none of whose reference
\* chunks passes the BM25 check of its query (an empty query included), has
\* average precision 0 and reciprocal rank 0, however similar its retrieved
\* and reference chunks are.
C12_NoEligibleReferenceScoresZero ==
    /\ \A n \in 1..Len(map.results.detailed_results) :
          LET d == map.results.detailed_results[n]
              row == df[d.row_index + 1]
          IN  (row.retrieved_contexts = <<>> \/ NoEligibleReferenceOf[row])
                  => /\ d.average_precision = Zero
                     /\ map.results.average_precisions[n] = Zero
    /\ \A n \in 1..Len(mrr.results.detailed_results) :
          LET d == mrr.results.detailed_results[n]
              row == df[d.row_index + 1]
          IN  (row.retrieved_contexts = <<>> \/ NoEligibleReferenceOf[row])
                  => /\ d.reciprocal_rank = Zero
                     /\ mrr.results.reciprocal_ranks[n] = Zero

\* a sample of identical chunks with a query of ten tokens and one with an empty
\* query: both score 1 in NDCG, which has no BM25 check, and 0 in AP and RR
C12_Witness ==
    /\ df = <<SampleTenTokens, SampleHalfRecall>>
    /\ map.pc = "done" /\ mrr.pc = "done" /\ ndcg.pc = "done"
    /\ ndcg.results.ndcg_scores = <<One, One>>
    /\ map.results.average_precisions = <<Zero, Zero>>
    /\ mrr.results.reciprocal_ranks = <<Zero, Zero>>

\* C13: for a sample with a non-empty query, evaluate_map keeps every non-empty
\* reference chunk as eligible: the BM25 check with threshold -10 on the index
\* of the single chunk removes none, however many tokens query and chunk share.
C13_FilterKeepsEveryReferenceChunk ==
    \A n \in 1..Len(map.results.detailed_results) :
        LET d == map.results.detailed_results[n]
            row == df[d.row_index + 1]
        IN  (/\ row.user_input # <<>>
             /\ row.retrieved_contexts # <<>>
             /\ \A r \in 1..Len(row.reference_contexts) : row.reference_contexts[r] # <<>>)
                => /\ d.calculation_details.relevant_chunks = row.reference_contexts
                   /\ d.relevant_chunks_count = Len(row.reference_contexts)

\* the numbers the evaluators have recorded so far
RecordedNumbers ==
    UNION {
        {pr.results.avg_precision, pr.results.avg_recall, pr.results.avg_f1,
         f1.avg_f1, mrr.results.mrr, map.results.map, ndcg.results.avg_ndcg},
        {pr.results.precision_scores[k] : k \in 1..Len(pr.results.precision_scores)},
        {pr.results.recall_scores[k] : k \in 1..Len(pr.results.recall_scores)},
        UNION {{pr.results.detailed_results[k].similarity_matrix[i][j] :
                    i \in 1..pr.results.detailed_results[k].retrieved_count,
                    j \in 1..pr.results.detailed_results[k].reference_count} :
               k \in 1..Len(pr.results.detailed_results)},
        {f1.f1_scores[k] : k \in 1..Len(f1.f1_scores)},
        {mrr.results.reciprocal_ranks[k] : k \in 1..Len(mrr.results.reciprocal_ranks)},
        {map.results.average_precisions[k] : k \in 1..Len(map.results.average_precisions)},
        {ndcg.results.ndcg_scores[k] : k \in 1..Len(ndcg.results.ndcg_scores)},
        {ndcg.results.detailed_results[k].dcg : k \in 1..Len(ndcg.results.detailed_results)},
        {ndcg.results.detailed_results[k].idcg : k \in 1..Len(ndcg.results.detailed_results)} }

\* C16: no evaluation divides by zero: no recorded number is a raised
\* ZeroDivisionError, and where a denominator is zero the value is 0: the
\* averages of a dataset without a scored sample, F1 of precision + recall = 0,
\* NDCG of IDCG = 0, and the BM25 score on a chunk without tokens (avgdl = 0).
C16_NoDivisionByZero ==
    /\ ZeroDivisionError \notin RecordedNumbers
    /\ (pr.pc = "done" /\ pr.results.precision_scores = <<>>) =>
            pr.results.avg_precision = Zero /\ pr.results.avg_recall = Zero
    /\ (pr.pc = "done" /\ RAdd(pr.results.avg_precision, pr.results.avg_recall) = Zero) =>
            pr.results.avg_f1 = Zero
    /\ f1.pc = "done" =>
            /\ RAdd(pr.results.avg_precision, pr.results.avg_recall) = Zero => f1.avg_f1 = Zero
            /\ \A k \in 1..Len(f1.f1_scores) :
                  RAdd(pr.results.precision_scores[k], pr.results.recall_scores[k]) = Zero
                      => f1.f1_scores[k] = Zero
    /\ \A k \in 1..Len(ndcg.results.detailed_results) :
          ndcg.results.detailed_results[k].idcg = Zero
              => ndcg.results.detailed_results[k].ndcg = Zero
    /\ (mrr.pc = "done" /\ df = <<>>) => mrr.results.mrr = Zero
    /\ (map.pc = "done" /\ df = <<>>) => map.results.map = Zero
    /\ (ndcg.pc = "done" /\ df = <<>>) => ndcg.results.avg_ndcg = Zero
    /\ \A k \in 1..Len(map.results.detailed_results) :
          df[k] = SampleBlank =>
              /\ map.results.detailed_results[k].calculation_details.relevant_chunks
                     = <<ChunkNoToken>>
              /\ map.results.detailed_results[k].average_precision = Zero

\* a dataset of the sample with an empty string and a chunk without tokens and
\* of a sample that is passed over: precision + recall = 0, IDCG = 0 and
\* avgdl = 0 have all occurred and every evaluator has returned
C16_Witness ==
    /\ df = <<SampleBlank, SampleEmptyRetrieved>>
    /\ pr.pc = "done" /\ f1.pc = "done" /\ mrr.pc = "done" /\ map.pc = "done"
    /\ ndcg.pc = "done"
    /\ pr.results.precision_scores = <<Zero>> /\ pr.results.recall_scores = <<Zero>>
    /\ pr.results.avg_f1 = Zero
    /\ f1.f1_scores = <<Zero>>
    /\ ndcg.results.detailed_results[1].idcg = Zero
    /\ ndcg.results.ndcg_scores = <<Zero, Zero>>

\* a sample with both lists non-empty, the dataset without the other samples,
\* and the place of row k of the dataset among the rows that are kept
NonEmptySample(row) == row.retrieved_contexts # <<>> /\ row.reference_contexts # <<>>
Kept == SelectSeq(df, NonEmptySample)
RankOf(k) == Cardinality({j \in 1..k : NonEmptySample(df[j])})

AllDone == pr.pc = "done" /\ mrr.pc = "done" /\ map.pc = "done" /\ ndcg.pc = "done"

\* the metrics of a precision/recall record, without the index of its row
PRRecord(d) ==
    [ user_input |-> d.user_input, precision |-> d.precision, recall |-> d.recall,
      retrieved_count |-> d.retrieved_count, reference_count |-> d.reference_count,
      relevant_count |-> d.relevant_count,
      total_relevance_score |-> d.total_relevance_score,
      matched_reference_count |-> d.matched_reference_count,
      similarity_matrix |-> d.similarity_matrix ]

\* the precision/recall results of the dataset and of the dataset without its
\* empty samples: the same records, scores and averages
PRUnaffected(with, without) ==
    /\ with.precision_scores = without.precision_scores
    /\ with.recall_scores = without.recall_scores
    /\ with.avg_precision = without.avg_precision
    /\ with.avg_recall = without.avg_recall
    /\ Len(with.detailed_results) = Len(Kept)
    /\ Len(without.detailed_results) = Len(Kept)
    /\ \A n \in 1..Len(Kept) :
          /\ PRRecord(with.detailed_results[n]) = PRRecord(without.detailed_results[n])
          /\ NonEmptySample(df[with.detailed_results[n].row_index + 1])
          /\ RankOf(with.detailed_results[n].row_index + 1) = n

\* the records of a ranking evaluator for the dataset and for the dataset
\* without its empty samples: the same record for every non-empty sample
RankingUnaffected(with, without) ==
    /\ Len(with) = Len(df)
    /\ Len(without) = Len(Kept)
    /\ \A k \in 1..Len(df) :
          /\ with[k].row_index = k - 1
          /\ NonEmptySample(df[k]) =>
                [with[k] EXCEPT !.row_index = 0] = [without[RankOf(k)] EXCEPT !.row_index = 0]

\* C17: when every evaluation of a dataset has returned, every sample with both
\* lists non-empty has the metric record it has in the dataset without the
\* samples with an empty list, avg_precision and avg_recall are those of that
\* dataset, the precision/recall evaluation has no record of an empty sample,
\* and the ranking evaluations score it AP = RR = NDCG = 0.
C17_EmptySampleLeavesOthersUnaffected ==
    AllDone =>
        /\ PRUnaffected(pr.results,
               evaluate_precision_recall([PRIdle EXCEPT !.pc = "rows"], Kept, env).results)
        /\ RankingUnaffected(mrr.results.detailed_results,
               evaluate_mrr(MRRBuilt(env), Kept, env).results.detailed_results)
        /\ RankingUnaffected(map.results.detailed_results,
               evaluate_map(MAPBuilt(env), Kept, env).results.detailed_results)
        /\ RankingUnaffected(ndcg.results.detailed_results,
               evaluate_ndcg(NDCGBuilt(env), Kept, env).results.detailed_results)
        /\ \A k \in 1..Len(df) :
              ~NonEmptySample(df[k]) =>
                  /\ mrr.results.reciprocal_ranks[k] = Zero
                  /\ map.results.average_precisions[k] = Zero
                  /\ ndcg.results.ndcg_scores[k] = Zero

\* a sample without reference chunks before a sample that is scored
C17_Witness ==
    /\ AllDone
    /\ df = <<SampleEmptyReference, SampleHalfPrecision>>
    /\ pr.results.precision_scores = << <<1, 2>> >>
    /\ pr.results.detailed_results[1].row_index = 1
    /\ mrr.results.reciprocal_ranks = <<Zero, One>>
    /\ map.results.average_precisions = <<Zero, One>>
    /\ ndcg.results.ndcg_scores = <<Zero, One>>

\* the number of skipped samples that the results of evaluate_precision_recall
\* record: the results have no key for it
skipped_count(results) ==
    IF "skipped_count" \in DOMAIN results THEN results.skipped_count ELSE 0

\* C18: when evaluate_precision_recall has returned, the number of samples it
\* scored plus the number of skipped samples its results record is the number
\* of samples of the dataset.
C18_ScoredPlusSkippedIsInput ==
    pr.pc = "done" =>
        Len(pr.results.precision_scores) + skipped_count(pr.results) = Len(df)

\* the arithmetic mean of a list of numbers, 0 for the empty list
ArithmeticMean(xs) == IF xs = <<>> THEN Zero ELSE RDiv(SeqSum(xs), <<Len(xs), 1>>)

\* the entries of a list, one per sample of the dataset, at the non-empty samples
AtKept(xs) == [n \in 1..Len(Kept) |-> xs[CHOOSE k \in 1..Len(df) : NonEmptySample(df[k]) /\ RankOf(k) = n]]

\* C19 as stated: MRR, MAP and mean NDCG are the arithmetic means over the
\* samples with both lists non-empty, the samples of the precision/recall
\* averages.
C19_RankingMeansOverScoredSamples ==
    AllDone =>
        /\ mrr.results.mrr = ArithmeticMean(AtKept(mrr.results.reciprocal_ranks))
        /\ map.results.map = ArithmeticMean(AtKept(map.results.average_precisions))
        /\ ndcg.results.avg_ndcg = ArithmeticMean(AtKept(ndcg.results.ndcg_scores))

\* C19 amended: MRR, MAP and mean NDCG are the arithmetic means over all the
\* samples of the dataset, a sample with an empty list entering as 0 and being
\* counted in total_queries; only avg_precision and avg_recall are means over
\* the samples with both lists non-empty.
C19_RankingMeansOverAllSamples ==
    /\ mrr.pc = "done" =>
          /\ Len(mrr.results.reciprocal_ranks) = Len(df)
          /\ mrr.results.total_queries = Len(df)
          /\ mrr.results.mrr = ArithmeticMean(mrr.results.reciprocal_ranks)
    /\ map.pc = "done" =>
          /\ Len(map.results.average_precisions) = Len(df)
          /\ map.results.total_queries = Len(df)
          /\ map.results.map = ArithmeticMean(map.results.average_precisions)
    /\ ndcg.pc = "done" =>
          /\ Len(ndcg.results.ndcg_scores) = Len(df)
          /\ ndcg.results.total_queries = Len(df)
          /\ ndcg.results.avg_ndcg = ArithmeticMean(ndcg.results.ndcg_scores)
    /\ pr.pc = "done" =>
          /\ Len(pr.results.precision_scores) = Len(Kept)
          /\ Len(pr.results.recall_scores) = Len(Kept)
          /\ pr.results.avg_precision = ArithmeticMean(pr.results.precision_scores)
          /\ pr.results.avg_recall = ArithmeticMean(pr.results.recall_scores)

\* a scored sample with AP = RR = NDCG = 1 and recall 1 followed by a sample
\* without retrieved chunks: the ranking means are 1/2, avg_recall is 1
C19_Witness ==
    /\ AllDone
    /\ df = <<SampleHalfPrecision, SampleEmptyRetrieved>>
    /\ mrr.results.mrr = <<1, 2>>
    /\ map.results.map = <<1, 2>>
    /\ ndcg.results.avg_ndcg = <<1, 2>>
    /\ pr.results.avg_recall = One

\* C20 as stated: the dataset-level F1, avg_f1 of evaluate_precision_recall and
\* of calculate_f1_scores_from_bm25_results, is the arithmetic mean of the F1
\* values of the samples.
C20_DatasetF1IsMeanOfSampleF1 ==
    f1.pc = "done" =>
        /\ f1.avg_f1 = ArithmeticMean(f1.f1_scores)
        /\ pr.results.avg_f1 = ArithmeticMean(f1.f1_scores)

\* f is the harmonic mean of p and r, 0 when both are 0
IsHarmonicMean(f, p, r) ==
    /\ RAdd(p, r) = Zero => f = Zero
    /\ RMul(f, RAdd(p, r)) = RMul(<<2, 1>>, RMul(p, r))

\* C20 amended: the dataset-level F1 is the harmonic mean of avg_precision and
\* avg_recall (0 when both are 0), in the results of evaluate_precision_recall
\* and in those of calculate_f1_scores_from_bm25_results; the F1 values of the
\* samples are recorded in f1_scores, one per scored sample, and are not
\* averaged.
C20_DatasetF1IsF1OfAverages ==
    /\ pr.pc = "done" =>
          /\ pr.results.avg_precision = ArithmeticMean(pr.results.precision_scores)
          /\ pr.results.avg_recall = ArithmeticMean(pr.results.recall_scores)
          /\ IsHarmonicMean(pr.results.avg_f1,
                            pr.results.avg_precision, pr.results.avg_recall)
    /\ f1.pc = "done" =>
          /\ IsHarmonicMean(f1.avg_f1, pr.results.avg_precision, pr.results.avg_recall)
          /\ f1.total_samples = Len(pr.results.precision_scores)
          /\ Len(f1.f1_scores) = Len(pr.results.precision_scores)
          /\ \A k \in 1..Len(f1.f1_scores) :
                IsHarmonicMean(f1.f1_scores[k], pr.results.precision_scores[k],
                               pr.results.recall_scores[k])

\* a sample of precision 1/2 and recall 1 and a sample of precision 1 and
\* recall 1/2: both have F1 = 2/3, the averages are 3/4 and so is avg_f1
C20_Witness ==
    /\ f1.pc = "done"
    /\ df = <<SampleHalfPrecision, SampleHalfRecall>>
    /\ f1.f1_scores = << <<2, 3>>, <<2, 3>> >>
    /\ pr.results.avg_precision = <<3, 4>>
    /\ pr.results.avg_recall = <<3, 4>>
    /\ pr.results.avg_f1 = <<3, 4>>
    /\ f1.avg_f1 = <<3, 4>>

-----------------------------------------------------------------------------
(* Claim about the evaluations requested again, checked under SpecRerun.   *)

-----------------------------------------------------------------------------
(* The three ranking evaluations of one dataset, under the default         *)
(* threshold or a threshold equal to a similarity of the dataset.          *)

RankPool ==
    { SampleTwoCuts, SampleHalfPrecision, SampleHalfRecall, SampleTenTokens,
      SampleEmptyRetrieved }

InitRank ==
    /\ env \in [SIMILARITY_THRESHOLD : SimilarityThresholds, SEMANTIC_CONTAINMENT_THRESHOLD : {None}]
    /\ call = NoCall
    /\ df \in SeqsUpTo(RankPool, MaxRows)
    /\ pr = PRIdle
    /\ f1 = F1Idle
    /\ mrr = MRRBuilt(env)
    /\ map = MAPBuilt(env)
    /\ ndcg = NDCGBuilt(env)

NextRank ==
    \/ Quiescent /\ MRR_Call
    \/ MRR_EmptyRow
    \/ MRR_Row
    \/ MRR_Return
    \/ Quiescent /\ MAP_Call
    \/ MAP_EmptyRow
    \/ MAP_Row
    \/ MAP_Return
    \/ Quiescent /\ NDCG_Call
    \/ NDCG_EmptyRow
    \/ NDCG_Row
    \/ NDCG_Return

\* evaluate_mrr, evaluate_map and evaluate_ndcg of the dataset, in any order
SpecRank == InitRank /\ [][NextRank]_vars


HasPrevious(evaluator) == evaluator.pc = "done" /\ "previous" \in DOMAIN evaluator

-----------------------------------------------------------------------------
(* Claim about the thresholds of a run, checked under SpecEnv.             *)

\* the values float(os.getenv("SIMILARITY_THRESHOLD", "0.5")) can have
SimilarityThresholdValues ==
    {Getenv([SIMILARITY_THRESHOLD |-> t], "SIMILARITY_THRESHOLD", DefaultSimilarityThreshold) :
        t \in SimilarityThresholds}

RangeOf(xs) == {xs[k] : k \in 1..Len(xs)}

\* C22: within a run of evaluate_precision_recall all relevant, irrelevant and
\* missed verdicts recorded so far are verdicts against one and the same
\* similarity_threshold, and all recorded semantic containment verdicts are
\* against one and the same semantic_containment_threshold, whatever is
\* written to the environment while the run iterates.
C22_VerdictsAgainstOneThreshold ==
    /\ \E t \in SimilarityThresholdValues :
          /\ \A c \in RangeOf(pr.results.relevant_chunks) : RLt(t, c.relevance_score)
          /\ \A c \in RangeOf(pr.results.irrelevant_chunks) : RLe(c.max_relevance, t)
          /\ \A c \in RangeOf(pr.results.missed_chunks) : RLe(c.max_relevance, t)
    /\ \A c, d \in RangeOf(pr.results.relevant_chunks) :
          c.semantic_containment_threshold = d.semantic_containment_threshold

-----------------------------------------------------------------------------
(* Claim about BM25.score, checked under SpecBM25.                         *)

BM25Returned == call.fn = "BM25.score" /\ call.ret # Pending

\* the number of documents of the index of the call
CorpusSizeOfCall == IF call.args[1] = None THEN 0 ELSE Len(call.args[1])

\* C23: BM25.score returns 0, and raises nothing, for every doc_index outside
\* 0..N-1 - negative ones included - on a fitted, an empty or a never-fitted
\* index; an index fitted on the empty corpus has avgdl = 0.
C23_ScoreOutOfRangeIsZero ==
    /\ BM25_fit(<<>>).avgdl = Zero
    /\ BM25Returned /\ call.args[3] \notin 0..(CorpusSizeOfCall - 1) => call.ret = Zero

-----------------------------------------------------------------------------
(* Claims about the relevance of a retrieved chunk in the four             *)
(* evaluations, checked under SpecData.                                    *)

\* retrieved chunk i of sample k is in relevant_chunks of evaluate_precision_recall
PRRelevant(k, i) ==
    \E c \in RangeOf(pr.results.relevant_chunks) : c.row_index = k - 1 /\ c.retrieved_idx = i - 1

\* it has is_relevant in chunk_relevance_scores of calculate_average_precision
APRelevant(k, i) ==
    LET scores == map.results.detailed_results[k].calculation_details.chunk_relevance_scores
    IN  i \in DOMAIN scores /\ scores[i].is_relevant

\* it has relevance 1.0 in relevance_scores of calculate_relevance_scores
NDCGRelevant(k, i) ==
    ndcg.results.detailed_results[k].calculation_details.relevance_scores[i] = One

\* C24: for every sample with both lists non-empty and every retrieved chunk
\* of it, the chunk is relevant for AP iff it is relevant for NDCG iff
\* evaluate_precision_recall records it relevant, and RR > 0 iff some chunk
\* of the sample is relevant.
C24_OneRelevanceDefinition ==
    AllDone =>
        \A k \in 1..Len(df) :
            NonEmptySample(df[k]) =>
                /\ \A i \in 1..Len(df[k].retrieved_contexts) :
                      /\ APRelevant(k, i) <=> NDCGRelevant(k, i)
                      /\ NDCGRelevant(k, i) <=> PRRelevant(k, i)
                /\ RLt(Zero, mrr.results.reciprocal_ranks[k])
                      <=> \E i \in 1..Len(df[k].retrieved_contexts) : PRRelevant(k, i)

-----------------------------------------------------------------------------
(* Further claims about calculate_text_similarity, checked under SpecSim.  *)

\* the cleaned arguments of the call
CleanedArgs == <<clean_text(call.args[1]), clean_text(call.args[2])>>

\* one of two texts is a verbatim substring of the other, the shorter of the
\* longer or either of its equal
Contains(c1, c2) == IF Len(c1) <= Len(c2) THEN IsSubstring(c1, c2) ELSE IsSubstring(c2, c1)

\* C25: when both cleaned texts are non-empty and the shorter is a verbatim
\* substring of the longer - equal cleaned texts included - the similarity
\* returned is at least 0.8, whatever SEMANTIC_CONTAINMENT_THRESHOLD is.
C25_LiteralContainmentAtLeast ==
    (/\ SimReturned
     /\ CleanedArgs[1] # <<>>
     /\ CleanedArgs[2] # <<>>
     /\ Contains(CleanedArgs[1], CleanedArgs[2]))
    => RLe(<<4, 5>>, call.ret)

\* the length of the longest substring of shorter that has at least 5
\* characters and occurs in longer, 0 if there is none
LongestCommonRun(shorter, longer) ==
    SetMax({0} \cup
           {j - i + 1 : <<i, j>> \in
               {p \in (1..Len(shorter)) \X (1..Len(shorter)) :
                    /\ p[2] >= p[1] + 4
                    /\ IsSubstring(SubSeq(shorter, p[1], p[2]), longer)}})

\* the shorter and the longer of two cleaned texts, the second argument being
\* the shorter of two of equal length
ShorterOf(c1, c2) == IF Len(c1) < Len(c2) THEN c1 ELSE c2
LongerOf(c1, c2) == IF Len(c1) < Len(c2) THEN c2 ELSE c1

\* C26: the substring score of the cleaned texts of a call is 0 when either has
\* 10 characters or fewer; when both have more and the shorter is not a
\* substring of the longer it is L / len(longer), L the length of the longest
\* substring of the shorter of at least 5 characters that occurs in the longer,
\* wherever in the shorter it lies - and the similarity returned is at least
\* the weighted sum with that score.
C26_SubstringScoreIsLongestRun ==
    SimReturned =>
        LET c1 == CleanedArgs[1]
            c2 == CleanedArgs[2]
            shorter == ShorterOf(c1, c2)
            longer == LongerOf(c1, c2)
            expected == Rat(LongestCommonRun(shorter, longer), Len(longer))
        IN  /\ Len(c1) <= 10 \/ Len(c2) <= 10 => substring_similarity(c1, c2) = Zero
            /\ Len(c1) > 10 /\ Len(c2) > 10 /\ ~IsSubstring(shorter, longer) =>
                  /\ substring_similarity(c1, c2) = expected
                  /\ RLe(RAdd(RAdd(RMul(jaccard_similarity(WordSet(c1), WordSet(c2)), <<2, 5>>),
                                    RMul(char_similarity(c1, c2), <<3, 10>>)),
                               RMul(expected, <<3, 10>>)),
                          call.ret)

\* C30: the similarity returned for (a, b) is the similarity of (b, a).
C30_SimilarityIsSymmetric ==
    SimReturned =>
        call.ret = calculate_text_similarity(call.args[2], call.args[1], env)

-----------------------------------------------------------------------------
(* Claim about the range of the average precision, checked under SpecMAP.  *)

\* C27: the average precision of every sample lies in [0,1], and so does each
\* recorded precision_at_k value, the relevant chunks seen so far divided by
\* the reversed position.
C27_AveragePrecisionInUnitInterval ==
    \A k \in 1..Len(map.results.detailed_results) :
        LET d == map.results.detailed_results[k]
        IN  /\ RLe(Zero, d.average_precision) /\ RLe(d.average_precision, One)
            /\ \A p \in RangeOf(d.calculation_details.precision_at_k) : RLe(p, One)

\* C28: on every sample the average precision is positive exactly when the
\* reciprocal rank is, so evaluate_map and evaluate_mrr, once both have run over
\* the dataset, report the same queries_with_relevant_chunks and
\* queries_without_relevant_chunks; and a sample of positive average precision
\* has a positive NDCG.
C28_PositiveScoresAgree ==
    /\ \A k \in 1..Len(df) :
            /\ (k <= map.idx /\ k <= mrr.idx) =>
                   (RLt(Zero, map.results.average_precisions[k])
                        <=> RLt(Zero, mrr.results.reciprocal_ranks[k]))
            /\ (k <= map.idx /\ k <= ndcg.idx) =>
                   (RLt(Zero, map.results.average_precisions[k])
                        => RLt(Zero, ndcg.results.ndcg_scores[k]))
    /\ (map.pc = "done" /\ mrr.pc = "done") =>
           /\ map.results.queries_with_relevant_chunks
                  = mrr.results.queries_with_relevant_chunks
           /\ map.results.queries_without_relevant_chunks
                  = mrr.results.queries_without_relevant_chunks

\* the three evaluations are done under the threshold 4/5 on a dataset with a
\* sample whose average precision is positive and one, with chunks as similar
\* as the threshold, whose average precision is 0
C28_Witness ==
    /\ map.pc = "done" /\ mrr.pc = "done" /\ ndcg.pc = "done"
    /\ map.relevance_threshold = <<4, 5>>
    /\ df = <<SampleTwoCuts, SampleHalfPrecision>>
    /\ map.results.queries_with_relevant_chunks = 1
    /\ map.results.queries_without_relevant_chunks = 1
    /\ map.results.average_precisions[1] = Zero
    /\ RLt(Zero, map.results.average_precisions[2])
    /\ RLt(Zero, ndcg.results.ndcg_scores[2])


\* the pairs (row_index, retrieved_idx) of the retrieved chunks of the samples
\* evaluate_precision_recall has processed and not passed over
ProcessedChunks ==
    UNION { {<<k - 1, i>> : i \in 0..(Len(Row(k).retrieved_contexts) - 1)} :
            k \in {r \in 1..pr.idx : /\ Row(r).retrieved_contexts # <<>>
                                      /\ Row(r).reference_contexts # <<>>} }

\* the number of entries of a list of chunk records for the pair c
EntryCount(chunks, c) ==
    Cardinality({j \in 1..Len(chunks) :
        chunks[j].row_index = c[1] /\ chunks[j].retrieved_idx = c[2]})

\* total_queries, the two counts and the score list of a ranking evaluation
\* after idx samples
CountsAgree(results, scores, idx) ==
    /\ results.total_queries
           = results.queries_with_relevant_chunks + results.queries_without_relevant_chunks
    /\ results.total_queries = Len(scores)
    /\ results.total_queries = idx
    /\ Len(results.detailed_results) = idx

\* C29: after any prefix of the dataset, every retrieved chunk of a processed
\* sample with both lists has exactly one entry in relevant_chunks and
\* irrelevant_chunks together, the two lists hold nothing else, and
\* precision_scores, recall_scores and detailed_results have one length; in
\* evaluate_mrr, evaluate_map and evaluate_ndcg total_queries is the sum of the
\* two counts, the length of the score list and the number of samples processed.
C29_AccumulatorsAgree ==
    /\ \A c \in ProcessedChunks :
            EntryCount(pr.results.relevant_chunks, c)
                + EntryCount(pr.results.irrelevant_chunks, c) = 1
    /\ pr.pc \in {"rows", "done"} =>
            Len(pr.results.relevant_chunks) + Len(pr.results.irrelevant_chunks)
                = Cardinality(ProcessedChunks)
    /\ Len(pr.results.precision_scores) = Len(pr.results.recall_scores)
    /\ Len(pr.results.precision_scores) = Len(pr.results.detailed_results)
    /\ Len(pr.results.precision_scores) = Cardinality({c[1] : c \in ProcessedChunks})
    /\ CountsAgree(mrr.results, mrr.results.reciprocal_ranks, mrr.idx)
    /\ CountsAgree(map.results, map.results.average_precisions, map.idx)
    /\ CountsAgree(ndcg.results, ndcg.results.ndcg_scores, ndcg.idx)

\* evaluate_precision_recall has been over a passed-over sample and a sample with
\* one relevant and one irrelevant retrieved chunk, and evaluate_mrr is past the
\* first of them, with the second still to come
C29_Witness ==
    /\ df = <<SampleEmptyRetrieved, SampleHalfPrecision>>
    /\ pr.pc = "done" /\ pr.idx = 2
    /\ Len(pr.results.relevant_chunks) = 1
    /\ Len(pr.results.irrelevant_chunks) = 1
    /\ Len(pr.results.detailed_results) = 1
    /\ mrr.pc = "rows" /\ mrr.idx = 1
    /\ mrr.results.queries_without_relevant_chunks = 1

====
